---- MODULE Spec2Model ----
(***************************************************************************)
(* Model of the three node scripts concatenated in src/main.js:            *)
(*   - the report script (lines 1-154), whose getAllChunks pages through   *)
(*     /report/ results and prints the records it keeps as it goes;        *)
(*   - the report script with an extra filter expression (lines 155-346),  *)
(*     whose getAllChunks pages through /report/ results and keeps the     *)
(*     records whose parent-path value has a length within [greater, less];*)
(*   - the cart-creation script (lines 348-477), whose multipleNewCarts    *)
(*     issues one PUT per iteration.                                       *)
(* The JavaScript strings of the report script (field paths, property      *)
(* keys, record values, result lines) are sequences of characters, each a  *)
(* string of one character, or Backtick for U+0060; the cart names of the  *)
(* cart script are TLA+ strings.                                           *)
(***************************************************************************)
EXTENDS Integers, Sequences, FiniteSets, TLC

VARIABLES
    field,        \* program.property, the dotted field path
    less,         \* program.less
    greater,      \* program.greater
    db,           \* the records the remote server holds (server side)
    from,         \* getAllChunks: let from
    chunksEnded,  \* getAllChunks: let chunksEnded
    total,        \* getAllChunks: let total
    results,      \* getAllChunks: const results
    pc,           \* position of the script
    inflight,     \* requests sent and not yet answered
    requests,     \* every request sent so far, in order
    received,     \* every page received so far, in order
    considered,   \* every record handed to the forEach callback, in order
    progress,     \* calls made on progressBar, in order
    errors,       \* number of 'OBJECT LOAD ERROR' lines logged
    output,       \* lines printed with console.log, in order
    lengthField,  \* const lengthField of the forEach callback
    fieldValue,   \* what a getObjectFieldValue call returned
    count,        \* program.count of the cart script
    start,        \* program.start of the cart script
    i             \* multipleNewCarts: let i

vars == <<field, less, greater, db, from, chunksEnded, total, results, pc,
          inflight, requests, received, considered, progress, errors, output,
          lengthField, fieldValue, count, start, i>>

(***************************************************************************)
(* Bounds of the model.                                                    *)
(***************************************************************************)
MaxFieldLen == 5   \* longest field path enumerated for the path computation
MaxRequests == 3   \* most page requests a free-running server lets happen
MaxPageLen == 2    \* most records in a page of the free-running server
MaxDbLen == 2      \* most records held by the small sample servers
MaxBound == 2      \* largest value of --greater / --less
MaxN == 1001       \* most records held by the large paging server
MaxEdge == 10      \* its record count is this close to a multiple of 500
MaxCount == 4      \* largest --count of the cart script
MaxStart == 2      \* largest --start of the cart script

\* const CHUNK_SIZE = 500
CHUNK_SIZE == 500

(***************************************************************************)
(* JavaScript values.  A string is the sequence of its characters:         *)
(* printable ASCII, and newline, tab, carriage return and form feed.  A    *)
(* finite number is a double, kept as the decimal digits JavaScript prints *)
(* for it, with the position of the decimal point; NaN and the two         *)
(* infinities stand apart.  A numeral denotes the double nearest to its    *)
(* decimal value.  Values parsed from JSON are null, booleans, numbers,    *)
(* strings, arrays and objects; property access also reaches the built-in  *)
(* functions and prototype objects they inherit from.                      *)
(***************************************************************************)
Undefined == [t |-> "undefined"]
Null == [t |-> "null"]
Bool(b) == [t |-> "boolean", b |-> b]
Str(s) == [t |-> "string", s |-> s]
Arr(items) == [t |-> "array", items |-> items]
\* a built-in function with its `name` and `length`
Fn(name, len) == [t |-> "function", name |-> name, len |-> len]
\* the prototype object of a built-in constructor: Object.prototype, ...
Proto(kind) == [t |-> "prototype", kind |-> kind]

(***************************************************************************)
(* Numbers.                                                                *)
(***************************************************************************)
Digits == <<"0", "1", "2", "3", "4", "5", "6", "7", "8", "9">>
IsDigit(c) == \E k \in 1..Len(Digits) : Digits[k] = c
DigitValue(c) == (CHOOSE k \in 1..Len(Digits) : Digits[k] = c) - 1
AllDigits(s) == s # <<>> /\ \A k \in 1..Len(s) : IsDigit(s[k])

\* the decimal digits of an integer
RECURSIVE Decimal(_)
Decimal(n) ==
    IF n < 0 THEN <<"-">> \o Decimal(0 - n)
    ELSE IF n < 10 THEN <<Digits[n + 1]>>
    ELSE Append(Decimal(n \div 10), Digits[(n % 10) + 1])

\* the integer a sequence of at most nine digits denotes
RECURSIVE DigitsValue(_)
DigitsValue(s) ==
    IF s = <<>> THEN 0
    ELSE 10 * DigitsValue(SubSeq(s, 1, Len(s) - 1)) + DigitValue(s[Len(s)])

RECURSIVE StripLeadingZeros(_)
StripLeadingZeros(s) ==
    IF s # <<>> /\ Head(s) = "0" THEN StripLeadingZeros(Tail(s)) ELSE s
RECURSIVE StripTrailingZeros(_)
StripTrailingZeros(s) ==
    IF s # <<>> /\ s[Len(s)] = "0" THEN StripTrailingZeros(SubSeq(s, 1, Len(s) - 1)) ELSE s
Zeros(n) == [k \in 1..n |-> "0"]

\* a finite number: its sign, its significant digits d1..dk (neither d1 nor
\* dk is 0; none at all for zero) and the position n of the decimal point:
\* the value is 0.d1...dk * 10^n
Number(neg, digits, point) ==
    [t |-> "number", neg |-> neg, digits |-> digits, point |-> point]
Zero(neg) == Number(neg, <<>>, 0)
Infinity(neg) == [t |-> "infinity", neg |-> neg]
NaN == [t |-> "nan"]

\* Number.MAX_VALUE (the default of --less)
MAX_VALUE == Number(FALSE, <<"1", "7", "9", "7", "6", "9", "3", "1", "3", "4", "8", "6", "2", "3", "1", "5", "7">>, 309)

\* 0.a * 10^p < 0.b * 10^q for significant digits a and b
RECURSIVE DigitsLess(_, _)
DigitsLess(a, b) ==
    IF b = <<>> THEN FALSE
    ELSE IF a = <<>> THEN TRUE
    ELSE IF Head(a) = Head(b) THEN DigitsLess(Tail(a), Tail(b))
    ELSE DigitValue(Head(a)) < DigitValue(Head(b))
MagnitudeLess(x, y) ==
    IF y.digits = <<>> THEN FALSE
    ELSE IF x.digits = <<>> THEN TRUE
    ELSE x.point < y.point \/ (x.point = y.point /\ DigitsLess(x.digits, y.digits))

(***************************************************************************)
(* Rounding to the nearest double.  A natural number of any size is the    *)
(* sequence of its decimal digits 0..9, most significant first; leading    *)
(* zeros are allowed and the empty sequence is 0.                          *)
(***************************************************************************)
\* x * m + y * n + a for x and y of the same length and small integers m, n
\* and a: the Len(x) low digits of the result and what is carried out of
\* them (the right half is worked out first, its carry goes into the left)
RECURSIVE Linear(_, _, _, _, _)
Linear(x, y, m, n, a) ==
    IF Len(x) <= 1
    THEN IF x = <<>> THEN [low |-> <<>>, carry |-> a]
         ELSE [low |-> <<(x[1] * m + y[1] * n + a) % 10>>,
               carry |-> (x[1] * m + y[1] * n + a) \div 10]
    ELSE CHOOSE both \in
            {LET h == Len(x) \div 2
                 left == Linear(SubSeq(x, 1, h), SubSeq(y, 1, h), m, n, right.carry)
             IN  [low |-> left.low \o right.low, carry |-> left.carry] :
                right \in {Linear(SubSeq(x, Len(x) \div 2 + 1, Len(x)),
                                  SubSeq(y, Len(x) \div 2 + 1, Len(x)), m, n, a)}} : TRUE

\* ds * m + a in decimal digits, without leading zeros
MulAdd(ds, m, a) ==
    LET Strip(x) ==
            IF \A k \in 1..Len(x) : x[k] = 0 THEN <<>>
            ELSE SubSeq(x, CHOOSE k \in 1..Len(x) : x[k] # 0 /\ \A j \in 1..(k - 1) : x[j] = 0,
                        Len(x))
        Wide(x) == Linear(x, x, m, 0, a).low
    IN  Strip(Wide([k \in 1..10 |-> 0] \o ds))

\* a * b^n for b = 2 or b = 5
RECURSIVE TimesPower(_, _, _)
TimesPower(a, b, n) ==
    IF a = <<>> THEN <<>>
    ELSE IF n <= (IF b = 2 THEN 27 ELSE 11) THEN MulAdd(a, b ^ n, 0)
    ELSE TimesPower(TimesPower(a, b, n \div 2), b, n - n \div 2)

\* a < b
BigLess(a, b) ==
    LET Before(x, y) == \E k \in 1..Len(x) : x[k] < y[k] /\ \A j \in 1..(k - 1) : x[j] = y[j]
    IN  Before([k \in 1..Len(b) |-> 0] \o a, [k \in 1..Len(a) |-> 0] \o b)

\* long division: the quotient of r by d, for r < 10 * d, in k more digits
\* after the digits q, rounded to the nearest integer and to the even one
\* half way between two; the rest is multiplied by 10 with every digit
RECURSIVE Divide(_, _, _, _)
Divide(r, d, k, q) ==
    LET Next(t) ==
            Divide(Tail(Linear([j \in 1..(Len(d) + 1 - Len(r)) |-> 0] \o r, <<0>> \o d,
                               1, 0 - t, 0).low) \o <<0>>,
                   d, k - 1, Append(q, t))
    IN  IF k = 0
        THEN MulAdd(q, 1, IF \/ BigLess(MulAdd(d, 5, 0), r)
                             \/ ~BigLess(r, MulAdd(d, 5, 0)) /\ q[Len(q)] % 2 = 1
                          THEN 1 ELSE 0)
        ELSE Next(CHOOSE t \in 0..9 :
                    ~BigLess(r, MulAdd(d, t, 0)) /\ BigLess(r, MulAdd(d, t + 1, 0)))

\* the shortest decimal numeral from L to H and, among those of that length,
\* the one nearest V, the even one when two are as near, for L <= V <= H;
\* the numeral keeps at least the first j digits of V: it is V cut after j
\* digits, or that plus one in the last place
RECURSIVE Shortest(_, _, _, _)
Shortest(L, V, H, j) ==
    IF /\ ~BigLess(SubSeq(V, 1, j) \o [k \in 1..(Len(V) - j) |-> 0], L)
       /\ \/ j = Len(V)
          \/ BigLess(H, MulAdd(SubSeq(V, 1, j), 1, 1) \o [k \in 1..(Len(V) - j) |-> 0])
          \/ BigLess(SubSeq(V, j + 1, Len(V)), <<5>> \o [k \in 1..(Len(V) - j - 1) |-> 0])
          \/ /\ ~BigLess(<<5>> \o [k \in 1..(Len(V) - j - 1) |-> 0], SubSeq(V, j + 1, Len(V)))
             /\ V[j] % 2 = 0
    THEN SubSeq(V, 1, j) \o [k \in 1..(Len(V) - j) |-> 0]
    ELSE IF ~BigLess(H, MulAdd(SubSeq(V, 1, j), 1, 1) \o [k \in 1..(Len(V) - j) |-> 0])
    THEN MulAdd(SubSeq(V, 1, j), 1, 1) \o [k \in 1..(Len(V) - j) |-> 0]
    ELSE Shortest(L, V, H, j + 1)

\* the number JavaScript prints for the double m * 2^q, m <= 2^53: the
\* shortest numeral that lies nearer to it than to its two neighbours (the
\* double below is at half the distance when m is 2^52), where a numeral
\* half way between two doubles belongs to the one whose m is even.  The
\* double and the two half-way points are taken in units of 2^(q-2), or of
\* 10^(q-2) after a multiplication by 5^(2-q).
DoubleDigits(neg, m, q) ==
    LET M == IF m = <<9, 0, 0, 7, 1, 9, 9, 2, 5, 4, 7, 4, 0, 9, 9, 2>>
             THEN <<4, 5, 0, 3, 5, 9, 9, 6, 2, 7, 3, 7, 0, 4, 9, 6>> ELSE m
        Q == IF m = <<9, 0, 0, 7, 1, 9, 9, 2, 5, 4, 7, 4, 0, 9, 9, 2>> THEN q + 1 ELSE q
        open == IF M[Len(M)] % 2 = 0 THEN 0 ELSE 1
        Bound(a) == TimesPower(MulAdd(M, 4, a), IF Q >= 2 THEN 2 ELSE 5,
                               IF Q >= 2 THEN Q - 2 ELSE 2 - Q)
        Chars(c) == StripLeadingZeros([k \in 1..Len(c) |-> Digits[c[k] + 1]])
        Printed(text) ==
            Number(neg, StripTrailingZeros(text), Len(text) - (IF Q >= 2 THEN 0 ELSE 2 - Q))
    IN  IF m = <<>> THEN Zero(neg)
        ELSE IF Q > 971 THEN Infinity(neg)
        ELSE Printed(Chars(Shortest(
                 MulAdd(Bound(IF Q > -1074 /\ M = <<4, 5, 0, 3, 5, 9, 9, 6, 2, 7, 3, 7, 0, 4, 9, 6>>
                              THEN -1 ELSE -2), 1, open),
                 Bound(0),
                 MulAdd(Bound(2), 1, 0 - open),
                 1)))

\* the double nearest to r / d * 2^e, for r >= d > 0: d is doubled until
\* r < 2 * d, so that 2^e <= r / d * 2^e < 2^(e+1); the mantissa is the
\* quotient of r * 2^p by 2 * d in p = 53 binary digits, fewer below
\* 2^-1022, which has at most 16 decimal digits
RECURSIVE NearestDouble(_, _, _, _)
NearestDouble(neg, r, d, e) ==
    LET p == IF e >= -1022 THEN 53 ELSE e + 1075
    IN  IF ~BigLess(r, MulAdd(d, 2, 0)) THEN NearestDouble(neg, r, MulAdd(d, 2, 0), e + 1)
        ELSE IF e > 1023 THEN Infinity(neg)
        ELSE IF e < -1075 THEN Zero(neg)
        ELSE DoubleDigits(neg,
                          Divide(TimesPower(r, 2, p), MulAdd(d, 2, 0) \o [k \in 1..15 |-> 0],
                                 16, <<>>),
                          e - p + 1)

\* the number +-0.ds * 10^point for any digits ds, rounded to the nearest
\* double: D * 10^E with D the digits without the zeros at either end.
\* Up to 15 digits in a moderate range print as they are; otherwise
\* D * 5^E is taken as a fraction r / d of two naturals, divided by 2^c for
\* an estimate c of its binary exponent that is never too large.
Finite(neg, ds, point) ==
    LET lead == StripLeadingZeros(ds)
        sig == StripTrailingZeros(lead)
        at == point - (Len(ds) - Len(lead))
        E == at - Len(sig)
        c == (IF at >= 1 THEN ((at - 1) * 3321) \div 1000
              ELSE 0 - (((1 - at) * 3322 + 999) \div 1000)) - E
    IN  IF sig = <<>> THEN Zero(neg)
        ELSE IF at > 310 THEN Infinity(neg)
        ELSE IF at < -330 THEN Zero(neg)
        ELSE IF Len(sig) <= 15 /\ at >= -300 /\ at <= 300 THEN Number(neg, sig, at)
        ELSE NearestDouble(neg,
                 TimesPower(TimesPower([k \in 1..Len(sig) |-> DigitValue(sig[k])],
                                       5, IF E > 0 THEN E ELSE 0),
                            2, IF c < 0 THEN 0 - c ELSE 0),
                 TimesPower(TimesPower(<<1>>, 5, IF E < 0 THEN 0 - E ELSE 0),
                            2, IF c > 0 THEN c ELSE 0),
                 c + E)

\* the number of an integer of the model
Num(n) ==
    IF n = 0 THEN Zero(FALSE)
    ELSE LET ds == Decimal(IF n < 0 THEN 0 - n ELSE n)
         IN  Number(n < 0, StripTrailingZeros(ds), Len(ds))

\* Number::toString: the digits with the decimal point where it falls, or
\* the exponent form below 1e-6 and from 1e21 on
NumberToString(v) ==
    LET k == Len(v.digits)
        n == v.point
        e == n - 1
    IN  IF k = 0 THEN <<"0">>
        ELSE (IF v.neg THEN <<"-">> ELSE <<>>) \o
             (IF k <= n /\ n <= 21 THEN v.digits \o Zeros(n - k)
              ELSE IF 0 < n /\ n <= 21
              THEN SubSeq(v.digits, 1, n) \o <<".">> \o SubSeq(v.digits, n + 1, k)
              ELSE IF -6 < n /\ n <= 0 THEN <<"0", ".">> \o Zeros(0 - n) \o v.digits
              ELSE <<Head(v.digits)>>
                      \o (IF k = 1 THEN <<>> ELSE <<".">> \o Tail(v.digits))
                      \o <<"e">> \o (IF e < 0 THEN Decimal(e) ELSE <<"+">> \o Decimal(e)))

\* x < y for two numbers: undefined when one of them is NaN
NumLess(x, y) ==
    IF x = NaN \/ y = NaN THEN Undefined
    ELSE IF x = Infinity(FALSE) \/ y = Infinity(TRUE) THEN Bool(FALSE)
    ELSE IF x = Infinity(TRUE) \/ y = Infinity(FALSE) THEN Bool(TRUE)
    ELSE IF x.digits = <<>> /\ y.digits = <<>> THEN Bool(FALSE)
    ELSE IF x.digits = <<>> THEN Bool(~y.neg)
    ELSE IF y.digits = <<>> THEN Bool(x.neg)
    ELSE IF x.neg # y.neg THEN Bool(x.neg)
    ELSE IF x.neg THEN Bool(MagnitudeLess(y, x))
    ELSE Bool(MagnitudeLess(x, y))

(***************************************************************************)
(* Objects.                                                                *)
(***************************************************************************)
\* an array index as a property key: the canonical numeral of an integer
\* from 0 to 2^32 - 2
IsArrayIndex(key) ==
    /\ AllDigits(key)
    /\ Len(key) = 1 \/ key[1] # "0"
    /\ \/ Len(key) < 10
       \/ /\ Len(key) = 10
          /\ ~DigitsLess(<<"4", "2", "9", "4", "9", "6", "7", "2", "9", "4">>, key)

\* the own keys of an object with the members `pairs` in the order
\* JavaScript lists them: the array indices in ascending order, then the
\* other keys in the order in which they first appear
OwnKeys(pairs) ==
    LET keys == {pairs[n][1] : n \in 1..Len(pairs)}
        First(key) == CHOOSE n \in 1..Len(pairs) :
                         /\ pairs[n][1] = key
                         /\ \A m \in 1..(n - 1) : pairs[m][1] # key
        Before(a, b) ==
            IF IsArrayIndex(a) /\ IsArrayIndex(b)
            THEN Len(a) < Len(b) \/ (Len(a) = Len(b) /\ DigitsLess(a, b))
            ELSE IF IsArrayIndex(a) \/ IsArrayIndex(b) THEN IsArrayIndex(a)
            ELSE First(a) < First(b)
    IN  [k \in 1..Cardinality(keys) |->
            CHOOSE x \in keys : Cardinality({y \in keys : Before(y, x)}) = k - 1]

\* an object parsed from JSON text whose members are `pairs`, each a
\* <<key, value>>: `props` maps each key to the value of its last member,
\* `keys` lists the keys in own-property order
Obj(pairs) ==
    [t |-> "object", keys |-> OwnKeys(pairs),
     props |-> [key \in {pairs[n][1] : n \in 1..Len(pairs)} |->
                  pairs[CHOOSE n \in 1..Len(pairs) :
                          /\ pairs[n][1] = key
                          /\ \A m \in (n + 1)..Len(pairs) : pairs[m][1] # key][2]]]

(***************************************************************************)
(* Property keys and built-in objects.                                     *)
(***************************************************************************)
\* the property keys the scripts use
KeyLength == <<"l", "e", "n", "g", "t", "h">>
KeyId == <<"@", "i", "d">>
KeyGraph == <<"@", "g", "r", "a", "p", "h">>
KeyTotal == <<"t", "o", "t", "a", "l">>

\* keys and names of the built-in objects
KeyName == <<"n", "a", "m", "e">>
KeyPrototype == <<"p", "r", "o", "t", "o", "t", "y", "p", "e">>
KeyConstructor == <<"c", "o", "n", "s", "t", "r", "u", "c", "t", "o", "r">>
KeyProto == <<"_", "_", "p", "r", "o", "t", "o", "_", "_">>
KeyToString == <<"t", "o", "S", "t", "r", "i", "n", "g">>
KeyCaller == <<"c", "a", "l", "l", "e", "r">>
KeyArguments == <<"a", "r", "g", "u", "m", "e", "n", "t", "s">>
KindObject == <<"O", "b", "j", "e", "c", "t">>
KindArray == <<"A", "r", "r", "a", "y">>
KindString == <<"S", "t", "r", "i", "n", "g">>
KindNumber == <<"N", "u", "m", "b", "e", "r">>
KindBoolean == <<"B", "o", "o", "l", "e", "a", "n">>
KindFunction == <<"F", "u", "n", "c", "t", "i", "o", "n">>
Kinds == {KindObject, KindArray, KindString, KindNumber, KindBoolean, KindFunction}

\* the methods of the prototype object of each built-in constructor, grouped
\* by their `length` (0, 1, 2, 3)
MethodsOf ==
    [kind \in Kinds |->
        CASE kind = KindObject ->
            <<
              {<<"t", "o", "S", "t", "r", "i", "n", "g">>, <<"v", "a", "l", "u", "e", "O", "f">>,
               <<"t", "o", "L", "o", "c", "a", "l", "e", "S", "t", "r", "i", "n", "g">>},
              {<<"h", "a", "s", "O", "w", "n", "P", "r", "o", "p", "e", "r", "t", "y">>,
               <<"i", "s", "P", "r", "o", "t", "o", "t", "y", "p", "e", "O", "f">>,
               <<"p", "r", "o", "p", "e", "r", "t", "y", "I", "s", "E", "n", "u", "m", "e", "r", "a", "b", "l", "e">>,
               <<"_", "_", "l", "o", "o", "k", "u", "p", "G", "e", "t", "t", "e", "r", "_", "_">>,
               <<"_", "_", "l", "o", "o", "k", "u", "p", "S", "e", "t", "t", "e", "r", "_", "_">>},
              {<<"_", "_", "d", "e", "f", "i", "n", "e", "G", "e", "t", "t", "e", "r", "_", "_">>,
               <<"_", "_", "d", "e", "f", "i", "n", "e", "S", "e", "t", "t", "e", "r", "_", "_">>},
              {}>>
          [] kind = KindArray ->
            <<
              {<<"p", "o", "p">>, <<"r", "e", "v", "e", "r", "s", "e">>, <<"s", "h", "i", "f", "t">>,
               <<"k", "e", "y", "s">>, <<"e", "n", "t", "r", "i", "e", "s">>,
               <<"v", "a", "l", "u", "e", "s">>, <<"f", "l", "a", "t">>,
               <<"t", "o", "L", "o", "c", "a", "l", "e", "S", "t", "r", "i", "n", "g">>,
               <<"t", "o", "S", "t", "r", "i", "n", "g">>,
               <<"t", "o", "R", "e", "v", "e", "r", "s", "e", "d">>},
              {<<"a", "t">>, <<"c", "o", "n", "c", "a", "t">>, <<"f", "i", "l", "l">>,
               <<"f", "i", "n", "d">>, <<"f", "i", "n", "d", "I", "n", "d", "e", "x">>,
               <<"f", "i", "n", "d", "L", "a", "s", "t">>,
               <<"f", "i", "n", "d", "L", "a", "s", "t", "I", "n", "d", "e", "x">>,
               <<"l", "a", "s", "t", "I", "n", "d", "e", "x", "O", "f">>, <<"p", "u", "s", "h">>,
               <<"u", "n", "s", "h", "i", "f", "t">>, <<"s", "o", "r", "t">>,
               <<"i", "n", "c", "l", "u", "d", "e", "s">>, <<"i", "n", "d", "e", "x", "O", "f">>,
               <<"j", "o", "i", "n">>, <<"f", "o", "r", "E", "a", "c", "h">>,
               <<"f", "i", "l", "t", "e", "r">>, <<"f", "l", "a", "t", "M", "a", "p">>, <<"m", "a", "p">>,
               <<"e", "v", "e", "r", "y">>, <<"s", "o", "m", "e">>, <<"r", "e", "d", "u", "c", "e">>,
               <<"r", "e", "d", "u", "c", "e", "R", "i", "g", "h", "t">>,
               <<"t", "o", "S", "o", "r", "t", "e", "d">>},
              {<<"c", "o", "p", "y", "W", "i", "t", "h", "i", "n">>, <<"s", "l", "i", "c", "e">>,
               <<"s", "p", "l", "i", "c", "e">>, <<"t", "o", "S", "p", "l", "i", "c", "e", "d">>,
               <<"w", "i", "t", "h">>},
              {}>>
          [] kind = KindString ->
            <<
              {<<"b", "i", "g">>, <<"b", "l", "i", "n", "k">>, <<"b", "o", "l", "d">>,
               <<"f", "i", "x", "e", "d">>, <<"i", "s", "W", "e", "l", "l", "F", "o", "r", "m", "e", "d">>,
               <<"i", "t", "a", "l", "i", "c", "s">>, <<"n", "o", "r", "m", "a", "l", "i", "z", "e">>,
               <<"s", "m", "a", "l", "l">>, <<"s", "t", "r", "i", "k", "e">>, <<"s", "u", "b">>,
               <<"s", "u", "p">>, <<"t", "o", "S", "t", "r", "i", "n", "g">>,
               <<"t", "o", "W", "e", "l", "l", "F", "o", "r", "m", "e", "d">>, <<"t", "r", "i", "m">>,
               <<"t", "r", "i", "m", "S", "t", "a", "r", "t">>, <<"t", "r", "i", "m", "L", "e", "f", "t">>,
               <<"t", "r", "i", "m", "E", "n", "d">>, <<"t", "r", "i", "m", "R", "i", "g", "h", "t">>,
               <<"t", "o", "L", "o", "c", "a", "l", "e", "L", "o", "w", "e", "r", "C", "a", "s", "e">>,
               <<"t", "o", "L", "o", "c", "a", "l", "e", "U", "p", "p", "e", "r", "C", "a", "s", "e">>,
               <<"t", "o", "L", "o", "w", "e", "r", "C", "a", "s", "e">>,
               <<"t", "o", "U", "p", "p", "e", "r", "C", "a", "s", "e">>,
               <<"v", "a", "l", "u", "e", "O", "f">>},
              {<<"a", "n", "c", "h", "o", "r">>, <<"a", "t">>, <<"c", "h", "a", "r", "A", "t">>,
               <<"c", "h", "a", "r", "C", "o", "d", "e", "A", "t">>,
               <<"c", "o", "d", "e", "P", "o", "i", "n", "t", "A", "t">>, <<"c", "o", "n", "c", "a", "t">>,
               <<"e", "n", "d", "s", "W", "i", "t", "h">>, <<"f", "o", "n", "t", "c", "o", "l", "o", "r">>,
               <<"f", "o", "n", "t", "s", "i", "z", "e">>, <<"i", "n", "c", "l", "u", "d", "e", "s">>,
               <<"i", "n", "d", "e", "x", "O", "f">>,
               <<"l", "a", "s", "t", "I", "n", "d", "e", "x", "O", "f">>, <<"l", "i", "n", "k">>,
               <<"l", "o", "c", "a", "l", "e", "C", "o", "m", "p", "a", "r", "e">>,
               <<"m", "a", "t", "c", "h">>, <<"m", "a", "t", "c", "h", "A", "l", "l">>,
               <<"p", "a", "d", "E", "n", "d">>, <<"p", "a", "d", "S", "t", "a", "r", "t">>,
               <<"r", "e", "p", "e", "a", "t">>, <<"s", "e", "a", "r", "c", "h">>,
               <<"s", "t", "a", "r", "t", "s", "W", "i", "t", "h">>},
              {<<"r", "e", "p", "l", "a", "c", "e">>, <<"r", "e", "p", "l", "a", "c", "e", "A", "l", "l">>,
               <<"s", "l", "i", "c", "e">>, <<"s", "p", "l", "i", "t">>, <<"s", "u", "b", "s", "t", "r">>,
               <<"s", "u", "b", "s", "t", "r", "i", "n", "g">>},
              {}>>
          [] kind = KindNumber ->
            <<
              {<<"v", "a", "l", "u", "e", "O", "f">>,
               <<"t", "o", "L", "o", "c", "a", "l", "e", "S", "t", "r", "i", "n", "g">>},
              {<<"t", "o", "E", "x", "p", "o", "n", "e", "n", "t", "i", "a", "l">>,
               <<"t", "o", "F", "i", "x", "e", "d">>,
               <<"t", "o", "P", "r", "e", "c", "i", "s", "i", "o", "n">>,
               <<"t", "o", "S", "t", "r", "i", "n", "g">>},
              {},
              {}>>
          [] kind = KindBoolean ->
            <<
              {<<"t", "o", "S", "t", "r", "i", "n", "g">>, <<"v", "a", "l", "u", "e", "O", "f">>},
              {},
              {},
              {}>>
          [] kind = KindFunction ->
            <<
              {<<"t", "o", "S", "t", "r", "i", "n", "g">>},
              {<<"b", "i", "n", "d">>, <<"c", "a", "l", "l">>},
              {<<"a", "p", "p", "l", "y">>},
              {}>>]

\* the static methods of each built-in constructor, grouped by their
\* `length` (0, 1, 2, 3)
StaticsOf ==
    [kind \in Kinds |->
        CASE kind = KindObject ->
            <<
              {},
              {<<"e", "n", "t", "r", "i", "e", "s">>, <<"f", "r", "e", "e", "z", "e">>,
               <<"f", "r", "o", "m", "E", "n", "t", "r", "i", "e", "s">>,
               <<"g", "e", "t", "O", "w", "n", "P", "r", "o", "p", "e", "r", "t", "y", "D", "e", "s", "c", "r", "i", "p", "t", "o", "r", "s">>,
               <<"g", "e", "t", "O", "w", "n", "P", "r", "o", "p", "e", "r", "t", "y", "N", "a", "m", "e", "s">>,
               <<"g", "e", "t", "O", "w", "n", "P", "r", "o", "p", "e", "r", "t", "y", "S", "y", "m", "b", "o", "l", "s">>,
               <<"g", "e", "t", "P", "r", "o", "t", "o", "t", "y", "p", "e", "O", "f">>,
               <<"i", "s", "E", "x", "t", "e", "n", "s", "i", "b", "l", "e">>,
               <<"i", "s", "F", "r", "o", "z", "e", "n">>, <<"i", "s", "S", "e", "a", "l", "e", "d">>,
               <<"k", "e", "y", "s">>,
               <<"p", "r", "e", "v", "e", "n", "t", "E", "x", "t", "e", "n", "s", "i", "o", "n", "s">>,
               <<"s", "e", "a", "l">>, <<"v", "a", "l", "u", "e", "s">>},
              {<<"a", "s", "s", "i", "g", "n">>, <<"c", "r", "e", "a", "t", "e">>,
               <<"d", "e", "f", "i", "n", "e", "P", "r", "o", "p", "e", "r", "t", "i", "e", "s">>,
               <<"g", "e", "t", "O", "w", "n", "P", "r", "o", "p", "e", "r", "t", "y", "D", "e", "s", "c", "r", "i", "p", "t", "o", "r">>,
               <<"h", "a", "s", "O", "w", "n">>, <<"i", "s">>,
               <<"s", "e", "t", "P", "r", "o", "t", "o", "t", "y", "p", "e", "O", "f">>},
              {<<"d", "e", "f", "i", "n", "e", "P", "r", "o", "p", "e", "r", "t", "y">>}>>
          [] kind = KindArray ->
            <<
              {<<"o", "f">>},
              {<<"f", "r", "o", "m">>, <<"i", "s", "A", "r", "r", "a", "y">>},
              {},
              {}>>
          [] kind = KindString ->
            <<
              {},
              {<<"f", "r", "o", "m", "C", "h", "a", "r", "C", "o", "d", "e">>,
               <<"f", "r", "o", "m", "C", "o", "d", "e", "P", "o", "i", "n", "t">>, <<"r", "a", "w">>},
              {},
              {}>>
          [] kind = KindNumber ->
            <<
              {},
              {<<"i", "s", "F", "i", "n", "i", "t", "e">>, <<"i", "s", "I", "n", "t", "e", "g", "e", "r">>,
               <<"i", "s", "N", "a", "N">>,
               <<"i", "s", "S", "a", "f", "e", "I", "n", "t", "e", "g", "e", "r">>,
               <<"p", "a", "r", "s", "e", "F", "l", "o", "a", "t">>},
              {<<"p", "a", "r", "s", "e", "I", "n", "t">>},
              {}>>
          [] OTHER -> <<{}, {}, {}, {}>>]

\* the constants of Number: EPSILON is 2^-52 and MAX_SAFE_INTEGER 2^53 - 1
NumberConstants ==
    <<"M", "A", "X", "_", "V", "A", "L", "U", "E">> :> MAX_VALUE
    @@ <<"M", "I", "N", "_", "V", "A", "L", "U", "E">> :> Number(FALSE, <<"5">>, -323)
    @@ <<"E", "P", "S", "I", "L", "O", "N">> :>
          Number(FALSE, <<"2", "2", "2", "0", "4", "4", "6", "0", "4", "9", "2", "5", "0", "3", "1", "3">>, -15)
    @@ <<"M", "A", "X", "_", "S", "A", "F", "E", "_", "I", "N", "T", "E", "G", "E", "R">> :>
          Number(FALSE, <<"9", "0", "0", "7", "1", "9", "9", "2", "5", "4", "7", "4", "0", "9", "9", "1">>, 16)
    @@ <<"M", "I", "N", "_", "S", "A", "F", "E", "_", "I", "N", "T", "E", "G", "E", "R">> :>
          Number(TRUE, <<"9", "0", "0", "7", "1", "9", "9", "2", "5", "4", "7", "4", "0", "9", "9", "1">>, 16)
    @@ <<"P", "O", "S", "I", "T", "I", "V", "E", "_", "I", "N", "F", "I", "N", "I", "T", "Y">> :> Infinity(FALSE)
    @@ <<"N", "E", "G", "A", "T", "I", "V", "E", "_", "I", "N", "F", "I", "N", "I", "T", "Y">> :> Infinity(TRUE)
    @@ <<"N", "a", "N">> :> NaN

\* ToBoolean(v), as used by `value && ...` and `partObject && ...`
Truthy(v) ==
    CASE v.t = "undefined" -> FALSE
      [] v.t = "null" -> FALSE
      [] v.t = "boolean" -> v.b
      [] v.t = "number" -> v.digits # <<>>
      [] v.t = "nan" -> FALSE
      [] v.t = "string" -> v.s # <<>>
      [] OTHER -> TRUE

\* a canonical array index: "0", "1", "2", ... without sign or leading zero
IsIndex(key) == AllDigits(key) /\ Len(key) <= 9 /\ (Len(key) = 1 \/ key[1] # "0")

(***************************************************************************)
(* Property access v[key].                                                 *)
(***************************************************************************)
\* the prototype object v inherits from; null at the end of the chain
ProtoOf(v) ==
    CASE v.t = "object" -> Proto(KindObject)
      [] v.t = "array" -> Proto(KindArray)
      [] v.t = "string" -> Proto(KindString)
      [] v.t \in {"number", "nan", "infinity"} -> Proto(KindNumber)
      [] v.t = "boolean" -> Proto(KindBoolean)
      [] v.t = "function" -> Proto(KindFunction)
      [] v.t = "prototype" -> IF v.kind = KindObject THEN Null ELSE Proto(KindObject)

\* key is found in a table of methods grouped by length, and the length it
\* is found under
InTable(table, key) == \E n \in 1..Len(table) : key \in table[n]
LengthIn(table, key) == (CHOOSE n \in 1..Len(table) : key \in table[n]) - 1

IsMethod(kind, key) == InTable(MethodsOf[kind], key)
IsStatic(kind, key) ==
    \/ InTable(StaticsOf[kind], key)
    \/ kind = KindNumber /\ key \in DOMAIN NumberConstants

\* the `name` of the method found under key: trimLeft and trimRight are
\* aliases of trimStart and trimEnd
MethodName(kind, key) ==
    IF kind = KindString /\ key = <<"t", "r", "i", "m", "L", "e", "f", "t">>
    THEN <<"t", "r", "i", "m", "S", "t", "a", "r", "t">>
    ELSE IF kind = KindString /\ key = <<"t", "r", "i", "m", "R", "i", "g", "h", "t">>
    THEN <<"t", "r", "i", "m", "E", "n", "d">>
    ELSE key

\* the own data properties of a prototype object besides its methods:
\* Array.prototype is an empty array, String.prototype an empty string and
\* Function.prototype a function without name or parameters
ProtoHasData(kind, key) ==
    \/ key = KeyConstructor
    \/ key = KeyLength /\ kind \in {KindArray, KindString, KindFunction}
    \/ key = KeyName /\ kind = KindFunction

\* does v have key as an own property
HasOwn(v, key) ==
    CASE v.t = "object" -> key \in DOMAIN v.props
      [] v.t \in {"array", "string"} ->
            \/ key = KeyLength
            \/ IsIndex(key) /\ DigitsValue(key) < Len(IF v.t = "array" THEN v.items ELSE v.s)
      [] v.t = "function" ->
            \/ key \in {KeyLength, KeyName}
            \/ v.name \in Kinds /\ (key = KeyPrototype \/ IsStatic(v.name, key))
      [] v.t = "prototype" -> IsMethod(v.kind, key) \/ ProtoHasData(v.kind, key)
      [] OTHER -> FALSE

\* the value of the own property key of v
OwnValue(v, key) ==
    CASE v.t = "object" -> v.props[key]
      [] v.t = "array" ->
            IF key = KeyLength THEN Num(Len(v.items)) ELSE v.items[DigitsValue(key) + 1]
      [] v.t = "string" ->
            IF key = KeyLength THEN Num(Len(v.s)) ELSE Str(<<v.s[DigitsValue(key) + 1]>>)
      [] v.t = "function" ->
            IF key = KeyLength THEN Num(v.len)
            ELSE IF key = KeyName THEN Str(v.name)
            ELSE IF key = KeyPrototype THEN Proto(v.name)
            ELSE IF InTable(StaticsOf[v.name], key)
            THEN Fn(key, LengthIn(StaticsOf[v.name], key))
            ELSE NumberConstants[key]
      [] v.t = "prototype" ->
            IF key = KeyConstructor THEN Fn(v.kind, 1)
            ELSE IF key = KeyLength THEN Num(0)
            ELSE IF key = KeyName THEN Str(<<>>)
            ELSE Fn(MethodName(v.kind, key), LengthIn(MethodsOf[v.kind], key))

\* v[key] for a v that is neither undefined nor null: the own property, the
\* __proto__ accessor, or the property inherited along the prototype chain
RECURSIVE GetProp(_, _)
GetProp(v, key) ==
    IF HasOwn(v, key) THEN OwnValue(v, key)
    ELSE IF v.t \in {"undefined", "null"} THEN Undefined
    ELSE IF key = KeyProto THEN ProtoOf(v)
    ELSE IF ProtoOf(v) = Null THEN Undefined
    ELSE GetProp(ProtoOf(v), key)

\* v[key] throws a TypeError: v is undefined or null, or key is one of the
\* poisoned accessors `caller` and `arguments` of Function.prototype
AccessThrows(v, key) ==
    \/ v.t \in {"undefined", "null"}
    \/ /\ v.t = "function" \/ v = Proto(KindFunction)
       /\ key \in {KeyCaller, KeyArguments}

(***************************************************************************)
(* Conversions.                                                            *)
(***************************************************************************)
\* converting v to a primitive throws a TypeError: an object parsed from
\* JSON that has a key "toString" hides Object.prototype.toString behind a
\* value that cannot be called, and an array that joins such an object
\* throws with it
RECURSIVE ConvThrows(_)
ConvThrows(v) ==
    CASE v.t = "object" -> KeyToString \in DOMAIN v.props
      [] v.t = "array" -> \E k \in 1..Len(v.items) : ConvThrows(v.items[k])
      [] OTHER -> FALSE

\* `${v}` in a template literal, for a v whose conversion does not throw
RECURSIVE ToStr(_)
RECURSIVE Join(_)
ToStr(v) ==
    CASE v.t = "string" -> v.s
      [] v.t = "number" -> NumberToString(v)
      [] v.t = "nan" -> <<"N", "a", "N">>
      [] v.t = "infinity" -> (IF v.neg THEN <<"-">> ELSE <<>>) \o <<"I", "n", "f", "i", "n", "i", "t", "y">>
      [] v.t = "boolean" -> IF v.b THEN <<"t", "r", "u", "e">> ELSE <<"f", "a", "l", "s", "e">>
      [] v.t = "null" -> <<"n", "u", "l", "l">>
      [] v.t = "undefined" -> <<"u", "n", "d", "e", "f", "i", "n", "e", "d">>
      [] v.t = "array" -> Join(v.items)
      [] v.t = "object" -> <<"[", "o", "b", "j", "e", "c", "t", " ", "O", "b", "j", "e", "c", "t", "]">>
      [] v.t = "function" -> <<"f", "u", "n", "c", "t", "i", "o", "n", " ">> \o v.name \o <<"(", ")", " ", "{", " ", "[", "n", "a", "t", "i", "v", "e", " ", "c", "o", "d", "e", "]", " ", "}">>
      [] v.t = "prototype" ->
            CASE v.kind = KindObject -> <<"[", "o", "b", "j", "e", "c", "t", " ", "O", "b", "j", "e", "c", "t", "]">>
              [] v.kind = KindArray -> <<>>
              [] v.kind = KindString -> <<>>
              [] v.kind = KindNumber -> <<"0">>
              [] v.kind = KindBoolean -> <<"f", "a", "l", "s", "e">>
              [] v.kind = KindFunction -> <<"f", "u", "n", "c", "t", "i", "o", "n", " ">> \o <<"(", ")", " ", "{", " ", "[", "n", "a", "t", "i", "v", "e", " ", "c", "o", "d", "e", "]", " ", "}">>

\* Array.prototype.join(): the elements' strings separated by ',', with
\* nothing for an element that is undefined or null
Join(items) ==
    IF items = <<>>
    THEN <<>>
    ELSE (IF Head(items).t \in {"undefined", "null"} THEN <<>> ELSE ToStr(Head(items)))
            \o (IF Len(items) = 1 THEN <<>> ELSE <<",">> \o Join(Tail(items)))

\* ToPrimitive(v) with hint number: valueOf() of an object, array or function
\* returns the object itself, so toString() decides; the prototypes of
\* Number, Boolean and String hold the primitive values 0, false and ''
ToPrimitive(v) ==
    CASE v.t \in {"array", "object", "function"} -> Str(ToStr(v))
      [] v.t = "prototype" ->
            CASE v.kind = KindNumber -> Num(0)
              [] v.kind = KindBoolean -> Bool(FALSE)
              [] OTHER -> Str(ToStr(v))
      [] OTHER -> v

\* white space that the conversion of a string to a number strips
IsSpace(c) == c \in {" ", "\n", "\t", "\r", "\f"}
RECURSIVE TrimStart(_)
TrimStart(s) == IF s # <<>> /\ IsSpace(Head(s)) THEN TrimStart(Tail(s)) ELSE s
RECURSIVE TrimEnd(_)
TrimEnd(s) ==
    IF s # <<>> /\ IsSpace(s[Len(s)]) THEN TrimEnd(SubSeq(s, 1, Len(s) - 1)) ELSE s

\* the position of the first character of s that is in S, 0 when none is
FirstIndex(s, S) ==
    IF \E k \in 1..Len(s) : s[k] \in S
    THEN CHOOSE k \in 1..Len(s) : s[k] \in S /\ \A j \in 1..(k - 1) : s[j] \notin S
    ELSE 0

\* the exponent of a decimal literal: digits with an optional sign; an
\* exponent of more than six digits is as good as a million
IsExponent(x) ==
    \/ AllDigits(x)
    \/ x # <<>> /\ Head(x) \in {"+", "-"} /\ AllDigits(Tail(x))
ExponentValue(x) ==
    LET ds == StripLeadingZeros(IF Head(x) \in {"+", "-"} THEN Tail(x) ELSE x)
        n == IF Len(ds) > 6 THEN 1000000 ELSE DigitsValue(ds)
    IN  IF Head(x) = "-" THEN 0 - n ELSE n

\* an unsigned decimal literal: a mantissa of digits, with at most one '.'
\* that has a digit before or after it, and an optional exponent
DecimalLiteral(neg, s) ==
    LET x == FirstIndex(s, {"e", "E"})
        m == IF x = 0 THEN s ELSE SubSeq(s, 1, x - 1)
        e == IF x = 0 THEN <<>> ELSE SubSeq(s, x + 1, Len(s))
        dot == FirstIndex(m, {"."})
        int == IF dot = 0 THEN m ELSE SubSeq(m, 1, dot - 1)
        frac == IF dot = 0 THEN <<>> ELSE SubSeq(m, dot + 1, Len(m))
    IN  IF /\ \A k \in 1..Len(int) : IsDigit(int[k])
           /\ \A k \in 1..Len(frac) : IsDigit(frac[k])
           /\ int \o frac # <<>>
           /\ x = 0 \/ IsExponent(e)
        THEN Finite(neg, int \o frac, Len(int) + (IF x = 0 THEN 0 ELSE ExponentValue(e)))
        ELSE NaN

\* hexadecimal, octal and binary literals: 0x.., 0o.., 0b.. without a sign;
\* the value of a digit is 99 for a character that is not one
RadixDigitValue(c) ==
    LET lower == <<"a", "b", "c", "d", "e", "f">>
        upper == <<"A", "B", "C", "D", "E", "F">>
    IN  IF IsDigit(c) THEN DigitValue(c)
        ELSE IF \E k \in 1..6 : lower[k] = c THEN (CHOOSE k \in 1..6 : lower[k] = c) + 9
        ELSE IF \E k \in 1..6 : upper[k] = c THEN (CHOOSE k \in 1..6 : upper[k] = c) + 9
        ELSE 99
RadixOf(c) ==
    CASE c \in {"x", "X"} -> 16
      [] c \in {"o", "O"} -> 8
      [] c \in {"b", "B"} -> 2
      [] OTHER -> 0
IsRadixLiteral(s) ==
    /\ Len(s) >= 3
    /\ s[1] = "0"
    /\ \A k \in 3..Len(s) : RadixDigitValue(s[k]) < RadixOf(s[2])

RECURSIVE RadixValue(_, _)
RadixValue(s, radix) ==
    IF s = <<>> THEN <<>>
    ELSE MulAdd(RadixValue(SubSeq(s, 1, Len(s) - 1), radix), radix,
                RadixDigitValue(s[Len(s)]))
RadixLiteral(s) ==
    LET ds == RadixValue(SubSeq(s, 3, Len(s)), RadixOf(s[2]))
    IN  Finite(FALSE, [k \in 1..Len(ds) |-> Digits[ds[k] + 1]], Len(ds))

\* the number a string denotes (StringToNumber): 0 for a blank string, the
\* value of a decimal, hexadecimal, octal or binary literal or of Infinity,
\* NaN for every other string
StringToNumber(s) ==
    LET body == TrimEnd(TrimStart(s))
        signed == body # <<>> /\ Head(body) \in {"+", "-"}
        neg == body # <<>> /\ Head(body) = "-"
        rest == IF signed THEN Tail(body) ELSE body
    IN  IF body = <<>> THEN Zero(FALSE)
        ELSE IF IsRadixLiteral(body) THEN RadixLiteral(body)
        ELSE IF rest = <<"I", "n", "f", "i", "n", "i", "t", "y">> THEN Infinity(neg)
        ELSE DecimalLiteral(neg, rest)

\* ToNumber(v) of a primitive v
ToNumber(v) ==
    CASE v.t = "undefined" -> NaN
      [] v.t = "null" -> Zero(FALSE)
      [] v.t = "boolean" -> IF v.b THEN Num(1) ELSE Zero(FALSE)
      [] v.t = "string" -> StringToNumber(v.s)
      [] OTHER -> v

\* the character U+0060, which has no string literal of its own in this
\* notation
Backtick == "U+0060"

\* the code units of the characters of the model: printable ASCII from the
\* space (32) to the tilde (126), newline, tab, carriage return and form
\* feed
CharCode(c) ==
    LET upper ==
          <<" ", "!", "\"", "#", "$", "%", "&", "'", "(", ")", "*", "+", ",", "-", ".", "/",
            "0", "1", "2", "3", "4", "5", "6", "7", "8", "9", ":", ";", "<", "=", ">", "?",
            "@", "A", "B", "C", "D", "E", "F", "G", "H", "I", "J", "K", "L", "M", "N", "O",
            "P", "Q", "R", "S", "T", "U", "V", "W", "X", "Y", "Z", "[", "\\", "]", "^", "_">>
        lower ==
          <<"a", "b", "c", "d", "e", "f", "g", "h", "i", "j", "k", "l", "m", "n", "o", "p",
            "q", "r", "s", "t", "u", "v", "w", "x", "y", "z", "{", "|", "}", "~">>
    IN  IF c = "\t" THEN 9
        ELSE IF c = "\n" THEN 10
        ELSE IF c = "\f" THEN 12
        ELSE IF c = "\r" THEN 13
        ELSE IF c = Backtick THEN 96
        ELSE IF \E k \in 1..Len(lower) : lower[k] = c
        THEN 96 + (CHOOSE k \in 1..Len(lower) : lower[k] = c)
        ELSE 31 + (CHOOSE k \in 1..Len(upper) : upper[k] = c)

\* a < b for two strings: by code units, a proper prefix first
RECURSIVE StrLess(_, _)
StrLess(a, b) ==
    IF b = <<>> THEN FALSE
    ELSE IF a = <<>> THEN TRUE
    ELSE IF Head(a) = Head(b) THEN StrLess(Tail(a), Tail(b))
    ELSE CharCode(Head(a)) < CharCode(Head(b))

\* the abstract relational comparison px < py of two primitives: two strings
\* compare as strings, every other pair as numbers, and the result is
\* undefined when one of the numbers is NaN
Less(px, py) ==
    IF px.t = "string" /\ py.t = "string"
    THEN Bool(StrLess(px.s, py.s))
    ELSE NumLess(ToNumber(px), ToNumber(py))

\* a >= b and a <= b: true when a < b, respectively b < a, is false
GreaterOrEqual(a, b) == Less(ToPrimitive(a), ToPrimitive(b)) = Bool(FALSE)
LessOrEqual(a, b) == Less(ToPrimitive(b), ToPrimitive(a)) = Bool(FALSE)

(***************************************************************************)
(* String operations on field paths.                                       *)
(***************************************************************************)
\* field.includes('.')
Includes(s, c) == \E k \in 1..Len(s) : s[k] = c

\* field.lastIndexOf('.'), 0-based, -1 when there is none
LastIndexOf(s, c) ==
    IF Includes(s, c)
    THEN (CHOOSE k \in 1..Len(s) : s[k] = c /\ \A j \in (k+1)..Len(s) : s[j] # c) - 1
    ELSE -1

\* s.substring(a, b): negative arguments count as 0, and the two are swapped
\* when a > b
Substring(s, a, b) ==
    LET Clamp(n) == IF n < 0 THEN 0 ELSE IF n > Len(s) THEN Len(s) ELSE n
        lo == IF Clamp(a) <= Clamp(b) THEN Clamp(a) ELSE Clamp(b)
        hi == IF Clamp(a) <= Clamp(b) THEN Clamp(b) ELSE Clamp(a)
    IN  SubSeq(s, lo + 1, hi)

\* field.split('.')
RECURSIVE Split(_, _)
Split(s, c) ==
    IF ~Includes(s, c)
    THEN <<s>>
    ELSE LET k == CHOOSE k \in 1..Len(s) : s[k] = c /\ \A j \in 1..(k-1) : s[j] # c
         IN  <<SubSeq(s, 1, k - 1)>> \o Split(SubSeq(s, k + 1, Len(s)), c)

\* the parent path cut at the last '.' without the includes() test
LengthFieldNoIncludes(p) == Substring(p, 0, LastIndexOf(p, "."))

\* const lengthField = field.includes('.') ? field.substring(0, field.lastIndexOf('.')) : field
LengthField(p) ==
    IF Includes(p, ".") THEN Substring(p, 0, LastIndexOf(p, ".")) ELSE p

\* parts.reduce((partObject, part) => partObject && partObject[part], object)
RECURSIVE Reduce(_, _)
Reduce(parts, acc) ==
    IF parts = <<>>
    THEN acc
    ELSE Reduce(Tail(parts), IF Truthy(acc) THEN GetProp(acc, Head(parts)) ELSE acc)

\* the reduce throws: a truthy partObject refuses the access to the next part
RECURSIVE ReduceThrows(_, _)
ReduceThrows(parts, acc) ==
    IF parts = <<>> \/ ~Truthy(acc)
    THEN FALSE
    ELSE \/ AccessThrows(acc, Head(parts))
         \/ ReduceThrows(Tail(parts), GetProp(acc, Head(parts)))

\* getObjectFieldValue(object, field)
getObjectFieldValue(object, p) ==
    LET parts == Split(p, ".")
    IN  IF Len(parts) = 1 THEN GetProp(object, p) ELSE Reduce(parts, object)

\* getObjectFieldValue(object, field) throws instead of returning: object[field]
\* is not guarded, the accesses of the reduce are guarded by `partObject &&`
getObjectFieldValueThrows(object, p) ==
    LET parts == Split(p, ".")
    IN  IF Len(parts) = 1 THEN AccessThrows(object, p) ELSE ReduceThrows(parts, object)

(***************************************************************************)
(* The page filter of getAllChunks.                                        *)
(***************************************************************************)
\* value.length >= greater && value.length <= less, for a truthy value whose
\* length converts to a primitive: both comparisons coerce their operands, so
\* a length that is undefined compares false with every bound while null, a
\* string or an array compares by the number or string it converts to
LengthWithin(value, lo, hi) ==
    /\ GreaterOrEqual(GetProp(value, KeyLength), lo)
    /\ LessOrEqual(GetProp(value, KeyLength), hi)

\* value && value.length >= greater && value.length <= less
Matches(value, lo, hi) == Truthy(value) /\ LengthWithin(value, lo, hi)

\* `${obj['@id']} - ${value.length}`
Line(obj, value) ==
    ToStr(GetProp(obj, KeyId)) \o <<" ", "-", " ">> \o ToStr(GetProp(value, KeyLength))

\* the forEach callback applied to one record: it throws a TypeError (in
\* getObjectFieldValue, in the comparison when value.length cannot be
\* converted, or in the template literal when obj['@id'] cannot), or it
\* returns after pushing the lines listed, one or none
Callback(obj, p, lo, hi) ==
    LET measured == LengthField(p)
        value == getObjectFieldValue(obj, measured)
    IN  IF getObjectFieldValueThrows(obj, measured)
        THEN [throws |-> TRUE, lines |-> <<>>]
        ELSE IF ~Truthy(value)
        THEN [throws |-> FALSE, lines |-> <<>>]
        ELSE IF ConvThrows(GetProp(value, KeyLength))
        THEN [throws |-> TRUE, lines |-> <<>>]
        ELSE IF ~Matches(value, lo, hi)
        THEN [throws |-> FALSE, lines |-> <<>>]
        ELSE IF ConvThrows(GetProp(obj, KeyId))
        THEN [throws |-> TRUE, lines |-> <<>>]
        ELSE [throws |-> FALSE, lines |-> <<Line(obj, value)>>]

\* the callbacks of a forEach run in order until one throws: given the
\* outcome of each, `thrower` is the position of the first that throws, 0
\* when none does, and `lines` the lines of those that returned before it
FirstThrow(outcomes) ==
    LET thrower == IF \E k \in 1..Len(outcomes) : outcomes[k].throws
                   THEN CHOOSE k \in 1..Len(outcomes) :
                           /\ outcomes[k].throws
                           /\ \A j \in 1..(k - 1) : ~outcomes[j].throws
                   ELSE 0
        returned == IF thrower = 0 THEN outcomes ELSE SubSeq(outcomes, 1, thrower - 1)
        written == SelectSeq(returned, LAMBDA outcome : outcome.lines # <<>>)
    IN  [thrower |-> thrower, lines |-> [k \in 1..Len(written) |-> written[k].lines[1]]]

\* results.unshift(line) for each line in turn
UnshiftEach(res, lines) == [k \in 1..Len(lines) |-> lines[Len(lines) + 1 - k]] \o res

\* results.push(line) for each line in turn
PushEach(res, lines) == res \o lines

\* chunk['@graph'].forEach((obj) => {...}): the callback runs on the records
\* in the order of @graph until one throws; `thrower` is the position of
\* that record, 0 when the forEach runs to its end, and `lines` the lines
\* the records before it pushed to results
ForEach(graph, p, lo, hi) ==
    FirstThrow(SubSeq([k \in 1..Len(graph) |-> Callback(graph[k], p, lo, hi)],
                      1, Len(graph)))

(***************************************************************************)
(* getChunk and the loop of getAllChunks.                                  *)
(***************************************************************************)
\* the JSON of a report page: its records and the `total` it reports
Page(t, graph) == Obj(<< <<KeyGraph, Arr(graph)>>, <<KeyTotal, Num(t)>> >>)

\* what fetch() and response.json() settle with: a response that is ok and
\* carries the parsed JSON, a response that is ok and whose body is not JSON,
\* a response that is not ok, or a rejection (network error)
OkResponse(json) == [kind |-> "ok", json |-> json]
InvalidJson == [kind |-> "invalid"]
NotOkResponse == [kind |-> "notok"]
NetworkError == [kind |-> "neterr"]

\* getChunk(...): the parsed JSON, or undefined after the catch() logged the
\* error
getChunk(response) == IF response.kind = "ok" THEN response.json ELSE Undefined

\* a page read that treats a missing page as an empty one
GraphOrEmpty(chunk) ==
    [throws |-> FALSE,
     value |-> IF chunk = Undefined THEN Arr(<<>>) ELSE GetProp(chunk, KeyGraph)]

\* chunk['@graph'], read for its length: a TypeError is thrown when chunk is
\* undefined or null, and when chunk['@graph'] is
Graph(chunk) ==
    IF AccessThrows(chunk, KeyGraph) \/ AccessThrows(GetProp(chunk, KeyGraph), KeyLength)
    THEN [throws |-> TRUE, value |-> Undefined]
    ELSE [throws |-> FALSE, value |-> GetProp(chunk, KeyGraph)]

\* a test that also stops on a page shorter than CHUNK_SIZE
ChunksEndedOnShortPage(graph) == graph.t = "array" /\ Len(graph.items) < CHUNK_SIZE

\* chunksEnded = chunk['@graph'].length === 0
ChunksEnded(graph) == GetProp(graph, KeyLength) \in {Zero(FALSE), Zero(TRUE)}

\* an offset that counts pages instead of records
NextFromByOne(f) == f + 1

\* from += CHUNK_SIZE
NextFrom(f) == f + CHUNK_SIZE

\* a loop that sends the next two page requests without waiting
IssueAhead(f) == <<f, f + CHUNK_SIZE>>

\* the offsets of the requests one getChunk call sends
Issue(f) == <<f>>

\* the request getChunk builds: limit and from of searchUrl
Request(f) == [limit |-> CHUNK_SIZE, from |-> f]

Range(s) == {s[k] : k \in 1..Len(s)}
RequestsOf(offsets) == [k \in 1..Len(offsets) |-> Request(offsets[k])]

\* getAllChunks is called: its locals are initialised and the first
\* getChunk call sends the first page request
Start ==
    /\ pc = "init"
    /\ from' = 0
    /\ chunksEnded' = FALSE
    /\ total' = Zero(FALSE)
    /\ results' = <<>>
    /\ inflight' = Range(Issue(0))
    /\ requests' = RequestsOf(Issue(0))
    /\ pc' = "await"
    /\ UNCHANGED <<field, less, greater, db, received, considered, progress,
                   errors, output, lengthField,
                   fieldValue, count, start, i>>

\* the request for offset o settles with `response`: getChunk resolves, then
\* one turn of the while loop runs, up to the next await, the return or a
\* TypeError: the one thrown by reading '@graph' or its length, the one
\* thrown by calling forEach on an '@graph' that is not an array, or the one
\* a record throws in the forEach callback after the earlier records of the
\* page were handled
Receive(o, response) ==
    /\ pc = "await"
    /\ o \in inflight
    /\ errors' = IF response.kind = "ok" THEN errors ELSE errors + 1
    /\ \E read \in {Graph(getChunk(response))} :
         IF read.throws
         THEN /\ pc' = "crashed"
              /\ inflight' = inflight \ {o}
              /\ UNCHANGED <<from, chunksEnded, total, results, requests,
                             received, considered, progress, lengthField>>
         ELSE /\ chunksEnded' = ChunksEnded(read.value)
              /\ received' = Append(received, getChunk(response))
              /\ IF ChunksEnded(read.value)
                 THEN /\ pc' = "returned"
                      /\ inflight' = inflight \ {o}
                      /\ UNCHANGED <<from, total, results, requests, considered,
                                     progress, lengthField>>
                 ELSE \E newTotal \in {IF total \in {Zero(FALSE), Zero(TRUE)}
                                        THEN GetProp(getChunk(response), KeyTotal)
                                        ELSE total} :
                      LET started ==
                            IF total \in {Zero(FALSE), Zero(TRUE)}
                            THEN <<[call |-> "start", total |-> newTotal, value |-> 0]>>
                            ELSE <<>>
                      IN  /\ total' = newTotal
                          /\ IF read.value.t # "array"
                             THEN /\ progress' = progress \o started
                                  /\ inflight' = inflight \ {o}
                                  /\ pc' = "crashed"
                                  /\ UNCHANGED <<from, results, requests, considered,
                                                 lengthField>>
                             ELSE \E each \in {ForEach(read.value.items, field, greater, less)} :
                                    /\ results' = PushEach(results, each.lines)
                                    /\ lengthField' = LengthField(field)
                                    /\ IF each.thrower > 0
                                       THEN /\ considered' = considered \o
                                                    SubSeq(read.value.items, 1, each.thrower)
                                            /\ progress' = progress \o started
                                            /\ inflight' = inflight \ {o}
                                            /\ pc' = "crashed"
                                            /\ UNCHANGED <<from, requests>>
                                       ELSE /\ considered' = considered \o read.value.items
                                            /\ from' = NextFrom(from)
                                            /\ progress' = progress \o started \o
                                                    <<[call |-> "update", value |-> NextFrom(from)]>>
                                            /\ inflight' = (inflight \ {o}) \cup
                                                              Range(Issue(NextFrom(from)))
                                            /\ requests' = requests \o
                                                              RequestsOf(Issue(NextFrom(from)))
                                            /\ pc' = "await"
    /\ UNCHANGED <<field, less, greater, db, output, fieldValue, count, start, i>>

\* console.log('\n%s results', n): the format's newline, the count in place
\* of %s, and the rest of the format
CountLine(n) == <<"\n">> \o Decimal(n) \o <<" ", "r", "e", "s", "u", "l", "t", "s">>

\* the then() handler after getAllChunks resolved: progressBar.stop(), the
\* result count, then each result
Finish ==
    /\ pc = "returned"
    /\ progress' = Append(progress, [call |-> "stop"])
    /\ output' = <<CountLine(Len(results))>> \o results
    /\ pc' = "done"
    /\ UNCHANGED <<field, less, greater, db, from, chunksEnded, total, results,
                   inflight, requests, received, considered, errors,
                   lengthField,
                   fieldValue, count, start, i>>

(***************************************************************************)
(* console.log('%s - %s', a, b) of the first report script: util.format    *)
(* puts String(v) for a primitive v, except that -0 stays '-0', and        *)
(* util.inspect(v, { depth: 0, compact: 3 }) for an array or an object     *)
(* parsed from JSON, with inspect's default breakLength of 80,             *)
(* maxArrayLength of 100 and maxStringLength of 10000.                     *)
(***************************************************************************)
\* parts.join(sep), one half of the parts after the other
RECURSIVE JoinWith(_, _)
JoinWith(parts, sep) ==
    IF parts = <<>> THEN <<>>
    ELSE IF Len(parts) = 1 THEN parts[1]
    ELSE JoinWith(SubSeq(parts, 1, Len(parts) \div 2), sep) \o sep
            \o JoinWith(SubSeq(parts, Len(parts) \div 2 + 1, Len(parts)), sep)

\* formatNumber: `${n}`, and '-0' for negative zero
FormatNumber(v) == IF v = Zero(TRUE) THEN <<"-", "0">> ELSE ToStr(v)

\* strEscape: the string in single quotes; in double quotes when it holds a
\* single quote and no double quote; between backticks when it holds both
\* and neither a backtick nor '${'.  The backslash and the control
\* characters get a backslash before them, and so does the single quote of
\* a string in single quotes.
StrEscape(s) ==
    LET quote == IF ~Includes(s, "'") THEN "'"
                 ELSE IF ~Includes(s, "\"") THEN "\""
                 ELSE IF /\ ~Includes(s, Backtick)
                         /\ ~\E k \in 1..(Len(s) - 1) : s[k] = "$" /\ s[k + 1] = "{"
                 THEN Backtick
                 ELSE "'"
        EscapeChar(c) ==
            CASE c = "\n" -> <<"\\", "n">>
              [] c = "\t" -> <<"\\", "t">>
              [] c = "\r" -> <<"\\", "r">>
              [] c = "\f" -> <<"\\", "f">>
              [] c = "\\" -> <<"\\", "\\">>
              [] c = "'" /\ quote = "'" -> <<"\\", "'">>
              [] OTHER -> <<c>>
    IN  <<quote>> \o JoinWith([k \in 1..Len(s) |-> EscapeChar(s[k])], <<>>) \o <<quote>>

\* a key that is printed without quotes: /^[a-zA-Z_][a-zA-Z_0-9]*$/
IsIdentifier(key) ==
    LET IsLetter(c) ==
            \/ c = "_"
            \/ CharCode(c) >= CharCode("a") /\ CharCode(c) <= CharCode("z")
            \/ CharCode(c) >= CharCode("A") /\ CharCode(c) <= CharCode("Z")
    IN  /\ key # <<>>
        /\ IsLetter(key[1])
        /\ \A k \in 2..Len(key) : IsLetter(key[k]) \/ IsDigit(key[k])

\* formatValue below the depth limit: a primitive, [] or {} in full, every
\* other array as [Array] and every other object as [Object].  Of a string
\* the first 10000 characters are printed, with '... n more characters'
\* after them for the rest.  A string of more than 74 characters
\* (breakLength less the indentation of 2 and 4) is cut after each of its
\* newlines, and the pieces are escaped one by one and joined by ' +', a
\* newline and four spaces.
FormatNested(v) ==
    LET value == IF Len(v.s) > 10000 THEN SubSeq(v.s, 1, 10000) ELSE v.s
        trailer ==
            IF Len(v.s) <= 10000 THEN <<>>
            ELSE <<".", ".", ".", " ">> \o Decimal(Len(v.s) - 10000)
                    \o <<" ", "m", "o", "r", "e", " ", "c", "h", "a", "r", "a", "c", "t", "e", "r">>
                    \o (IF Len(v.s) > 10001 THEN <<"s">> ELSE <<>>)
        ends == {k \in 1..Len(value) : value[k] = "\n" \/ k = Len(value)}
        Piece(e) ==
            SubSeq(value,
                   CHOOSE b \in 1..e : /\ \A j \in b..(e - 1) : value[j] # "\n"
                                       /\ b = 1 \/ value[b - 1] = "\n",
                   e)
    IN  CASE v.t = "string" ->
                (IF Len(value) <= 74 THEN StrEscape(value)
                 ELSE JoinWith([n \in 1..Cardinality(ends) |->
                                  StrEscape(Piece(CHOOSE e \in ends :
                                                     Cardinality({x \in ends : x <= e}) = n))],
                               <<" ", "+", "\n", " ", " ", " ", " ">>))
                \o trailer
          [] v.t \in {"number", "nan", "infinity"} -> FormatNumber(v)
          [] v.t = "array" ->
                IF v.items = <<>> THEN <<"[", "]">> ELSE <<"[", "A", "r", "r", "a", "y", "]">>
          [] v.t = "object" ->
                IF v.keys = <<>> THEN <<"{", "}">> ELSE <<"[", "O", "b", "j", "e", "c", "t", "]">>
          [] OTHER -> ToStr(v)

\* the entries of an array or object: its first 100 elements and
\* '... n more items' for the rest, or its `key: value` members in own-key
\* order, the key as it is when it is an identifier, ['__proto__'] for
\* __proto__ and escaped otherwise
Entries(v) ==
    IF v.t = "array"
    THEN [k \in 1..(IF Len(v.items) > 100 THEN 100 ELSE Len(v.items)) |->
            FormatNested(v.items[k])]
         \o (IF Len(v.items) <= 100 THEN <<>>
             ELSE <<(<<".", ".", ".", " ">> \o Decimal(Len(v.items) - 100)
                     \o <<" ", "m", "o", "r", "e", " ", "i", "t", "e", "m">>
                     \o (IF Len(v.items) > 101 THEN <<"s">> ELSE <<>>))>>)
    ELSE [k \in 1..Len(v.keys) |->
            (IF v.keys[k] = <<"_", "_", "p", "r", "o", "t", "o", "_", "_">>
             THEN <<"[", "'", "_", "_", "p", "r", "o", "t", "o", "_", "_", "'", "]">>
             ELSE IF IsIdentifier(v.keys[k]) THEN v.keys[k]
             ELSE StrEscape(v.keys[k]))
            \o <<":", " ">> \o FormatNested(v.props[v.keys[k]])]

\* groupArrayElements: the entries of an array of more than six, put in
\* rows of `columns` entries when three of the longest fit on a line and
\* the entries are short or of like length.  With outputLength the number
\* of entries without the '... more items' one, totalLength the sum of
\* their lengths and separators and actualMax the longest with its
\* separator,
\*     biasedMax = max(actualMax - 3 - sqrt(actualMax - totalLength / entries), 1)
\*     columns = min(round(sqrt(2.5 * biasedMax * outputLength) / biasedMax),
\*                   floor(80 / actualMax), 12, 15)
\* so that columns >= k exactly when k <= floor(80 / actualMax), k <= 12 and
\* biasedMax * (2k - 1)^2 <= 10 * outputLength.  Every column is as wide as
\* its longest entry; the entries are padded on the left when all elements
\* are numbers and on the right otherwise.
GroupArrayElements(list, value) ==
    LET outputLength == IF Len(list) > 100 THEN Len(list) - 1 ELSE Len(list)
        dataLen == [j \in 1..outputLength |-> Len(list[j])]
        totalLength == Len(JoinWith(SubSeq(list, 1, outputLength), <<",", " ">>)) + 2
        maxLength == CHOOSE m \in {dataLen[j] : j \in 1..outputLength} :
                        \A j \in 1..outputLength : dataLen[j] <= m
        actualMax == maxLength + 2
        AtLeast(k) ==
            LET q == (2 * k - 1) * (2 * k - 1)
                w == (actualMax - 3) * q - 10 * outputLength
            IN  /\ k <= 80 \div actualMax
                /\ q <= 10 * outputLength
                /\ \/ w <= 0
                   \/ ~BigLess(MulAdd(<<>>, 0, (actualMax * Len(list) - totalLength) * q * q),
                               MulAdd(MulAdd(<<>>, 0, w * w), Len(list), 0))
        padStart == \A k \in 1..Len(list) : value.items[k].t \in {"number", "nan", "infinity"}
        Spaces(n) == [k \in 1..n |-> " "]
        Rows(columns) ==
            LET maxLineLength(c) ==
                    2 + (CHOOSE m \in {dataLen[j] : j \in {j \in 1..outputLength : (j - 1) % columns = c}} :
                            \A j \in 1..outputLength : (j - 1) % columns = c => dataLen[j] <= m)
                Cell(j) ==
                    IF j % columns # 0 /\ j # outputLength
                    THEN IF padStart
                         THEN Spaces(maxLineLength((j - 1) % columns) - dataLen[j] - 2)
                                 \o list[j] \o <<",", " ">>
                         ELSE list[j] \o <<",", " ">>
                                 \o Spaces(maxLineLength((j - 1) % columns) - dataLen[j] - 2)
                    ELSE IF padStart
                    THEN Spaces(maxLineLength((j - 1) % columns) - dataLen[j] - 2) \o list[j]
                    ELSE list[j]
            IN  IF columns <= 1 THEN list
                ELSE [r \in 1..((outputLength + columns - 1) \div columns) |->
                        JoinWith([c \in 1..(IF r * columns > outputLength
                                            THEN outputLength - (r - 1) * columns
                                            ELSE columns) |-> Cell((r - 1) * columns + c)],
                                 <<>>)]
                     \o SubSeq(list, outputLength + 1, Len(list))
    IN  IF actualMax * 3 < 80 /\ (totalLength > 5 * actualMax \/ maxLength <= 6)
        THEN Rows(CHOOSE k \in 0..12 : \A j \in 1..12 : j <= k <=> AtLeast(j))
        ELSE list

\* isBelowBreakLength: the entries fit on one line of inspect's default
\* breakLength, 80
IsBelowBreakLength(entries) ==
    /\ 3 * Len(entries) + 11 <= 80
    /\ 2 * Len(entries) + 11 + Len(JoinWith(entries, <<>>)) <= 80

\* util.inspect(v, { depth: 0, compact: 3 }) of an array or object
\* (reduceToSingleString): the entries between the brackets on one line
\* when they are not grouped, fit and hold no newline, and one entry or
\* one row of grouped entries per line otherwise
Inspect(v) ==
    LET open == IF v.t = "array" THEN "[" ELSE "{"
        close == IF v.t = "array" THEN "]" ELSE "}"
        Reduced(entries, list) ==
            IF entries = <<>> THEN <<open, close>>
            ELSE IF /\ Len(list) = Len(entries)
                    /\ IsBelowBreakLength(list)
                    /\ \A k \in 1..Len(list) : ~Includes(list[k], "\n")
            THEN <<open, " ">> \o JoinWith(list, <<",", " ">>) \o <<" ", close>>
            ELSE <<open, "\n", " ", " ">> \o JoinWith(list, <<",", "\n", " ", " ">>)
                    \o <<"\n", close>>
        Grouped(entries) ==
            Reduced(entries, IF v.t = "array" /\ Len(entries) > 6
                             THEN GroupArrayElements(entries, v) ELSE entries)
    IN  Grouped(Entries(v))

\* what %s puts for one argument
FormatArg(v) ==
    CASE v.t \in {"number", "nan", "infinity"} -> FormatNumber(v)
      [] v.t \in {"array", "object"} -> Inspect(v)
      [] OTHER -> ToStr(v)

\* util.format('%s - %s', a, b)
Format(a, b) == FormatArg(a) \o <<" ", "-", " ">> \o FormatArg(b)

(***************************************************************************)
(* The first report script (lines 1-154): its getAllChunks prints each     *)
(* line as it finds it, has no progress bar and returns nothing.           *)
(***************************************************************************)
\* const lengthField = field.substring(0, field.lastIndexOf('.'))
FirstLengthField(p) == Substring(p, 0, LastIndexOf(p, "."))

\* the forEach callback applied to one record: it throws a TypeError (in
\* getObjectFieldValue, or in the comparison when value.length cannot be
\* converted), or it returns after printing the lines listed, one or none
FirstCallback(obj, p, lo, hi) ==
    LET measured == FirstLengthField(p)
        value == getObjectFieldValue(obj, measured)
    IN  IF getObjectFieldValueThrows(obj, measured)
        THEN [throws |-> TRUE, lines |-> <<>>]
        ELSE IF ~Truthy(value)
        THEN [throws |-> FALSE, lines |-> <<>>]
        ELSE IF ConvThrows(GetProp(value, KeyLength))
        THEN [throws |-> TRUE, lines |-> <<>>]
        ELSE IF ~Matches(value, lo, hi)
        THEN [throws |-> FALSE, lines |-> <<>>]
        ELSE [throws |-> FALSE,
              lines |-> <<Format(GetProp(obj, KeyId), GetProp(value, KeyLength))>>]

\* chunk['@graph'].forEach((obj) => {...}): the callback runs on the records
\* in the order of @graph until one throws; `thrower` is the position of
\* that record, 0 when the forEach runs to its end, and `lines` the lines
\* the records before it printed
FirstForEach(graph, p, lo, hi) ==
    FirstThrow(SubSeq([k \in 1..Len(graph) |-> FirstCallback(graph[k], p, lo, hi)],
                      1, Len(graph)))

\* getAllChunks is called: its locals are initialised and the first
\* getChunk call sends the first page request
FirstStart ==
    /\ pc = "first-init"
    /\ from' = 0
    /\ chunksEnded' = FALSE
    /\ results' = <<>>
    /\ inflight' = Range(Issue(0))
    /\ requests' = RequestsOf(Issue(0))
    /\ pc' = "first-await"
    /\ UNCHANGED <<field, less, greater, db, total, received, considered, progress,
                   errors, output, lengthField, fieldValue, count, start, i>>

\* the request for offset o settles with `response`: getChunk resolves, then
\* one turn of the while loop runs, up to the next await, the return or a
\* TypeError
FirstReceive(o, response) ==
    /\ pc = "first-await"
    /\ o \in inflight
    /\ errors' = IF response.kind = "ok" THEN errors ELSE errors + 1
    /\ \E read \in {Graph(getChunk(response))} :
         IF read.throws
         THEN /\ pc' = "crashed"
              /\ inflight' = inflight \ {o}
              /\ UNCHANGED <<from, chunksEnded, requests, received, considered,
                             output, lengthField>>
         ELSE /\ chunksEnded' = ChunksEnded(read.value)
              /\ received' = Append(received, getChunk(response))
              /\ IF ChunksEnded(read.value)
                 THEN /\ pc' = "first-returned"
                      /\ inflight' = inflight \ {o}
                      /\ UNCHANGED <<from, requests, considered, output, lengthField>>
                 ELSE IF read.value.t # "array"
                 THEN /\ pc' = "crashed"
                      /\ inflight' = inflight \ {o}
                      /\ UNCHANGED <<from, requests, considered, output, lengthField>>
                 ELSE \E each \in {FirstForEach(read.value.items, field, greater, less)} :
                        /\ output' = output \o each.lines
                        /\ lengthField' = FirstLengthField(field)
                        /\ IF each.thrower > 0
                           THEN /\ considered' = considered \o
                                        SubSeq(read.value.items, 1, each.thrower)
                                /\ inflight' = inflight \ {o}
                                /\ pc' = "crashed"
                                /\ UNCHANGED <<from, requests>>
                           ELSE /\ considered' = considered \o read.value.items
                                /\ from' = NextFrom(from)
                                /\ inflight' = (inflight \ {o}) \cup
                                                  Range(Issue(NextFrom(from)))
                                /\ requests' = requests \o RequestsOf(Issue(NextFrom(from)))
                                /\ pc' = "first-await"
    /\ UNCHANGED <<field, less, greater, db, total, results, progress, fieldValue,
                   count, start, i>>

\* the then() handler after getAllChunks resolved: it is empty
FirstFinish ==
    /\ pc = "first-returned"
    /\ pc' = "first-done"
    /\ UNCHANGED <<field, less, greater, db, from, chunksEnded, total, results,
                   inflight, requests, received, considered, progress, errors,
                   output, lengthField, fieldValue, count, start, i>>

(***************************************************************************)
(* Inputs: field paths, records and servers.                               *)
(***************************************************************************)
\* 'files.@id', the default of --property
FieldFilesId == <<"f", "i", "l", "e", "s", ".", "@", "i", "d">>
\* 'status', a path without a dot
FieldStatus == <<"s", "t", "a", "t", "u", "s">>
\* 'a.b.c', a path whose parent has two segments
FieldABC == <<"a", ".", "b", ".", "c">>
\* 'constructor.x', a path whose parent every record inherits
FieldConstructorX == KeyConstructor \o <<".", "x">>
Fields == {FieldFilesId, FieldStatus, FieldABC, FieldConstructorX}

KeyFiles == <<"f", "i", "l", "e", "s">>
\* the @id of record n and of file n
Id(n) == Str(<<"/", "e", "/">> \o Decimal(n))
File(n) == Obj(<< <<KeyId, Str(<<"/", "f", "i", "l", "e", "s", "/">> \o Decimal(n))>> >>)

\* sample record number n
Rec(n) ==
      \* records of a report page
    CASE n = 1 ->
              Obj(<< <<KeyId, Id(1)>>,
                     <<KeyFiles, Arr(<<File(1)>>)>>,
                     <<FieldStatus, Str(<<"o", "k">>)>>,
                     << <<"a">>, Obj(<< << <<"b">>, Arr(<<Num(7), Num(8)>>)>> >>)>> >>)
      [] n = 2 ->
              Obj(<< <<KeyId, Id(2)>>,
                     <<KeyFiles, Arr(<<>>)>>,
                     <<FieldStatus, Str(<<>>)>>,
                     << <<"a">>, Obj(<< << <<"b">>, Str(<<>>)>> >>)>> >>)
      [] n = 3 ->
              Obj(<< <<KeyId, Id(3)>>,
                     <<KeyFiles, Arr(<<File(1), File(2)>>)>>,
                     <<FieldStatus, Str(<<"r", "e", "l", "e", "a", "s", "e", "d">>)>>,
                     << <<"a">>, Obj(<<>>)>> >>)
      [] n = 4 ->
              Obj(<< <<KeyId, Id(4)>> >>)
      [] n = 5 ->
              Obj(<< <<KeyId, Id(5)>>,
                     <<KeyFiles, Null>>,
                     <<FieldStatus, Num(0)>>,
                     << <<"a">>, Str(<<>>)>> >>)
      [] n = 6 ->
              Obj(<< <<KeyId, Id(6)>>,
                     <<KeyFiles, Obj(<< << <<"a">>, Num(1)>> >>)>>,
                     <<FieldStatus, Str(<<"r">>)>>,
                     << <<"a">>, Obj(<< << <<"b">>, Arr(<<Num(7)>>)>> >>)>> >>)
      \* objects whose key a holds null, 0 and a three-level nesting
      [] n = 7 ->
              Obj(<< <<KeyId, Id(7)>>, << <<"a">>, Null>> >>)
      [] n = 8 ->
              Obj(<< <<KeyId, Id(8)>>, << <<"a">>, Num(0)>> >>)
      [] n = 9 ->
              Obj(<< <<KeyId, Id(9)>>,
                     << <<"a">>, Obj(<< << <<"b">>, Obj(<< << <<"c">>, Str(<<"x">>)>> >>)>> >>)>> >>)
      \* records whose measured value is an object with a key "length" of its
      \* own: null, a string of digits, an array, an empty string, and an
      \* object that cannot be converted
      [] n = 10 ->
              Obj(<< <<KeyId, Id(10)>>,
                     <<KeyFiles, Obj(<< <<KeyLength, Null>> >>)>>,
                     <<FieldStatus, Bool(TRUE)>>,
                     << <<"a">>, Obj(<< << <<"b">>, Obj(<< <<KeyLength, Str(<<"1", "0">>)>> >>)>> >>)>> >>)
      [] n = 11 ->
              Obj(<< <<KeyId, Id(11)>>,
                     <<KeyFiles, Obj(<< <<KeyLength, Arr(<<Num(1)>>)>> >>)>>,
                     <<FieldStatus, Obj(<< <<KeyLength, Str(<<>>)>> >>)>>,
                     << <<"a">>, Obj(<< << <<"b">>, Obj(<< <<KeyLength,
                                                     Obj(<< <<KeyToString, Num(1)>> >>)>> >>)>> >>)>> >>)
      \* records whose @id or measured length is printed by util.inspect
      [] n = 12 ->
              Obj(<< <<KeyId, Obj(<< <<KeyToString, Num(1)>> >>)>>,
                     <<KeyFiles, Arr(<<Num(1)>>)>>,
                     << <<"a">>, Obj(<< << <<"b">>, Arr(<<>>)>> >>)>> >>)
      [] n = 13 ->
              Obj(<< <<KeyId, Arr(<<Str(<<"i", "t", "'", "s">>), Null, Arr(<<>>), Obj(<< <<KeyId, Id(4)>> >>)>>)>>,
                     <<KeyFiles, Obj(<< <<KeyLength, Arr(<<Num(1)>>)>> >>)>>,
                     << <<"a">>, Obj(<< << <<"b">>, Str(<<"x", "y">>)>> >>)>> >>)

SampleRecords == {Rec(n) : n \in {1, 2, 3, 4, 5, 6, 10, 11}}

\* record number n (0-based) of the large paging server
DbRecord(n) ==
    Obj(<< <<KeyId, Id(n)>>,
           <<KeyFiles, Arr([k \in 1..(n % 3) |-> File(k)])>> >>)

\* the value commander stores for `--greater n` or `--less n`: the argument
\* as typed, a string
Option(n) == Str(Decimal(n))
\* the bounds 1 and 2 as `--greater 1e0` and `--less 0x2`
OptionExponent == Str(<<"1", "e", "0">>)
OptionHex == Str(<<"0", "x", "2">>)

SeqsUpTo(S, n) == UNION {[1..m -> S] : m \in 0..n}

\* every answer of a free-running server: a page of records 1 and 3 that
\* reports a total of 0 or 3, JSON that is not a page (null and {}), a body
\* that is not JSON, and a failure
FreeResponses ==
    {OkResponse(Page(t, g)) : t \in {0, 3}, g \in SeqsUpTo({Rec(1), Rec(3)}, MaxPageLen)}
        \cup {OkResponse(Null), OkResponse(Obj(<<>>))}
        \cup {InvalidJson, NotOkResponse, NetworkError}

\* the answer of a server that holds the records d to a request from=f:
\* records f .. min(f + CHUNK_SIZE, N) - 1
DbResponse(d, f) ==
    LET hi == IF f + CHUNK_SIZE < Len(d) THEN f + CHUNK_SIZE ELSE Len(d)
    IN  OkResponse(Page(Len(d), SubSeq(d, f + 1, hi)))

IdleCart == count = 0 /\ start = 0 /\ i = 0

InitCommon ==
    /\ from = 0
    /\ chunksEnded = FALSE
    /\ total = Zero(FALSE)
    /\ results = <<>>
    /\ inflight = {}
    /\ requests = <<>>
    /\ received = <<>>
    /\ considered = <<>>
    /\ progress = <<>>
    /\ errors = 0
    /\ output = <<>>
    /\ lengthField = <<>>
    /\ fieldValue = Undefined

\* the report script against a server that may answer anything
Init ==
    /\ pc = "init"
    /\ field = FieldFilesId
    /\ greater = Option(1)
    /\ less \in {Option(1), Option(MaxBound)}
    /\ db = <<>>
    /\ InitCommon
    /\ IdleCart

\* the loop goes on to another page after this response
Continues(response) ==
    /\ ~Graph(getChunk(response)).throws
    /\ ~ChunksEnded(Graph(getChunk(response)).value)

FreeReceive ==
    \E o \in inflight : \E response \in FreeResponses :
        /\ Continues(response) => Len(requests) < MaxRequests
        /\ Receive(o, response)

Next == Start \/ FreeReceive \/ Finish

Spec == Init /\ [][Next]_vars

\* the report script against a server that holds a few sample records
InitFilter ==
    /\ pc = "init"
    /\ field \in Fields
    /\ greater \in {Option(n) : n \in 0..MaxBound} \cup {OptionExponent}
    /\ less \in {Option(n) : n \in 0..MaxBound} \cup {OptionHex, MAX_VALUE}
    /\ db \in SeqsUpTo(SampleRecords, MaxDbLen)
    /\ InitCommon
    /\ IdleCart

DbReceive == \E o \in inflight : Receive(o, DbResponse(db, o))

NextDb == Start \/ DbReceive \/ Finish

SpecFilter == InitFilter /\ [][NextDb]_vars

\* the report script against a server that holds N records, N within
\* MaxEdge of a multiple of the page size
InitPaging ==
    /\ pc = "init"
    /\ field = FieldFilesId
    /\ greater = Option(1)
    /\ less = MAX_VALUE
    /\ \E n \in {m \in 0..MaxN : \/ m % CHUNK_SIZE <= MaxEdge
                                 \/ m % CHUNK_SIZE >= CHUNK_SIZE - MaxEdge} :
          db = [k \in 1..n |-> DbRecord(k - 1)]
    /\ InitCommon
    /\ IdleCart

SpecPaging == InitPaging /\ [][NextDb]_vars

\* the first report script against a server that holds a few sample records
\* and may fail or answer with JSON that is not a page
InitFirst ==
    /\ pc = "first-init"
    /\ field \in Fields
    /\ greater \in {Option(n) : n \in 0..MaxBound}
    /\ less \in {Option(MaxBound), MAX_VALUE}
    /\ db \in SeqsUpTo({Rec(n) : n \in {1, 2, 3, 5, 11, 12, 13}}, MaxDbLen)
    /\ InitCommon
    /\ IdleCart

FirstAnyReceive ==
    \E o \in inflight :
        \E response \in {DbResponse(db, o), NotOkResponse, OkResponse(Null)} :
            FirstReceive(o, response)

NextFirst == FirstStart \/ FirstAnyReceive \/ FirstFinish

SpecFirst == InitFirst /\ [][NextFirst]_vars

(***************************************************************************)
(* The parent-path computation on its own, over every short path.          *)
(***************************************************************************)
PathChars == {"a", "b", "c", "."}

InitPath ==
    /\ pc = "path"
    /\ field \in SeqsUpTo(PathChars, MaxFieldLen)
    /\ greater = Option(1)
    /\ less = MAX_VALUE
    /\ db = <<>>
    /\ InitCommon
    /\ IdleCart

\* the first statement of the forEach callback
ComputeLengthField ==
    /\ pc = "path"
    /\ lengthField' = LengthField(field)
    /\ pc' = "path-done"
    /\ UNCHANGED <<field, less, greater, db, from, chunksEnded, total, results,
                   inflight, requests, received, considered, progress, errors,
                   output, fieldValue, count, start, i>>

NextPath == ComputeLengthField

SpecPath == InitPath /\ [][NextPath]_vars

(***************************************************************************)
(* getObjectFieldValue on its own, over every sample object and every short *)
(* path made of the keys of the sample records and of "0", the index of the *)
(* first element of an array or character of a string.                     *)
(***************************************************************************)
InitValue ==
    /\ pc = "value"
    /\ field \in SeqsUpTo(PathChars \cup {"0"}, MaxFieldLen)
    /\ greater = Option(1)
    /\ less = MAX_VALUE
    /\ \E obj \in SampleRecords \cup {Rec(7), Rec(8), Rec(9)} : db = <<obj>>
    /\ InitCommon
    /\ IdleCart

\* a call getObjectFieldValue(object, field) returns
ComputeFieldValue ==
    /\ pc = "value"
    /\ IF getObjectFieldValueThrows(db[1], field)
       THEN pc' = "crashed" /\ UNCHANGED fieldValue
       ELSE /\ fieldValue' = getObjectFieldValue(db[1], field)
            /\ pc' = "value-done"
    /\ UNCHANGED <<field, less, greater, db, from, chunksEnded, total, results,
                   inflight, requests, received, considered, progress, errors,
                   output, lengthField, count, start, i>>

NextValue == ComputeFieldValue

SpecValue == InitValue /\ [][NextValue]_vars

(***************************************************************************)
(* The cart-creation script.                                               *)
(***************************************************************************)
\* a suffix that is one too large
CartSuffixOffByOne(k, st) == k + 1 + st

\* i + parseInt(start, 10)
CartSuffix(k, st) == k + st

\* name: `Test Cart ${suffix}`
CartName(suffix) == "Test Cart " \o ToString(suffix)

\* the request newCart sends
Put(suffix) == [method |-> "PUT", name |-> CartName(suffix), locked |-> FALSE]

InitCarts ==
    /\ pc = "cart-init"
    /\ count \in 0..MaxCount
    /\ start \in 0..MaxStart
    /\ i = 0
    /\ field = <<>>
    /\ greater = Undefined
    /\ less = Undefined
    /\ db = <<>>
    /\ InitCommon

\* the then() handler after readKeyfile: progressBar.start(program.count, 0),
\* then multipleNewCarts runs up to its first await or, for count = 0, returns
CartStart ==
    /\ pc = "cart-init"
    /\ progress' = <<[call |-> "start", total |-> count, value |-> 0]>>
    /\ i' = 0
    /\ IF 0 < count
       THEN /\ inflight' = {CartSuffix(0, start)}
            /\ requests' = <<Put(CartSuffix(0, start))>>
            /\ pc' = "cart-await"
       ELSE /\ pc' = "cart-returned"
            /\ UNCHANGED <<inflight, requests>>
    /\ UNCHANGED <<field, less, greater, db, from, chunksEnded, total, results,
                   received, considered, errors, output, lengthField,
                   fieldValue, count, start>>

\* the PUT for suffix o settles: newCart resolves (after logging a failure),
\* the bar is updated and the for loop runs to its next await or its end
CartReceive(o, response) ==
    /\ pc = "cart-await"
    /\ o \in inflight
    /\ errors' = IF response.kind = "ok" THEN errors ELSE errors + 1
    /\ progress' = Append(progress, [call |-> "update", value |-> i + 1])
    /\ i' = i + 1
    /\ IF i + 1 < count
       THEN /\ inflight' = (inflight \ {o}) \cup {CartSuffix(i + 1, start)}
            /\ requests' = Append(requests, Put(CartSuffix(i + 1, start)))
            /\ pc' = "cart-await"
       ELSE /\ inflight' = inflight \ {o}
            /\ requests' = requests
            /\ pc' = "cart-returned"
    /\ UNCHANGED <<field, less, greater, db, from, chunksEnded, total, results,
                   received, considered, output, lengthField,
                   fieldValue, count, start>>

CartSettle ==
    \E o \in inflight :
        \E response \in {[kind |-> "ok"], NotOkResponse, NetworkError} :
            CartReceive(o, response)

\* the last then() handler: progressBar.stop()
CartFinish ==
    /\ pc = "cart-returned"
    /\ progress' = Append(progress, [call |-> "stop"])
    /\ pc' = "cart-done"
    /\ UNCHANGED <<field, less, greater, db, from, chunksEnded, total, results,
                   inflight, requests, received, considered, errors, output,
                   lengthField,
                   fieldValue, count, start, i>>

NextCarts == CartStart \/ CartSettle \/ CartFinish

SpecCarts == InitCarts /\ [][NextCarts]_vars

(***************************************************************************)
(* Vocabulary of the properties: what the specification calls the parent   *)
(* path, the value found at a path, and a value's length.                  *)
(***************************************************************************)
NoDot(p) == \A k \in 1..Len(p) : p[k] # "."

\* q is p itself when p has no '.', and p without its final '.segment' otherwise
IsParentPath(q, p) ==
    IF NoDot(p)
    THEN q = p
    ELSE \E n \in 0..(Len(p) - 1) :
            /\ p[n + 1] = "."
            /\ NoDot(SubSeq(p, n + 2, Len(p)))
            /\ q = SubSeq(p, 1, n)

ParentPath(p) == CHOOSE q \in {SubSeq(p, 1, n) : n \in 0..Len(p)} : IsParentPath(q, p)

\* the keys of a dotted path, in order
RECURSIVE Segments(_)
Segments(p) ==
    IF NoDot(p)
    THEN <<p>>
    ELSE Append(Segments(ParentPath(p)), SubSeq(p, Len(ParentPath(p)) + 2, Len(p)))

\* the value reached by walking the keys through v; absent as soon as a key
\* is looked up in nothing
RECURSIVE Walk(_, _)
Walk(v, keys) ==
    IF keys = <<>> THEN v
    ELSE IF v.t \in {"undefined", "null"} THEN Undefined
    ELSE Walk(GetProp(v, Head(keys)), Tail(keys))

ParentValue(obj) == Walk(obj, Segments(ParentPath(field)))

HasLength(v) == v.t \in {"array", "string"}
LengthOf(v) == IF v.t = "array" THEN Len(v.items) ELSE Len(v.s)

\* min <= L and L <= max for the bounds the run was given: --greater m and
\* --less m, or no upper bound when --less is left at its default
Spellings(m) ==
    {Option(m)} \cup (IF m = 1 THEN {OptionExponent} ELSE {})
                \cup (IF m = 2 THEN {OptionHex} ELSE {})
AtLeastMin(L) == \E m \in 0..MaxBound : greater \in Spellings(m) /\ m <= L
AtMostMax(L) == less = MAX_VALUE \/ \E m \in 0..MaxBound : less \in Spellings(m) /\ L <= m

\* the record's parent-path value has a length L with greater <= L <= less
InRange(obj) ==
    /\ HasLength(ParentValue(obj))
    /\ AtLeastMin(LengthOf(ParentValue(obj)))
    /\ AtMostMax(LengthOf(ParentValue(obj)))

\* "<id> - " and "<id> - <L>"
LinePrefix(obj) == obj.props[KeyId].s \o <<" ", "-", " ">>
ReportLine(obj) ==
    IF HasLength(ParentValue(obj))
    THEN LinePrefix(obj) \o Decimal(LengthOf(ParentValue(obj)))
    ELSE <<>>

\* the value found by walking the keys through the members the record
\* itself has; absent as soon as a key is missing
RECURSIVE OwnWalk(_, _)
OwnWalk(v, keys) ==
    IF keys = <<>> THEN v
    ELSE IF ~HasOwn(v, Head(keys)) THEN Undefined
    ELSE OwnWalk(OwnValue(v, Head(keys)), Tail(keys))

\* the record's parent-path value is absent
Absent(obj) == OwnWalk(obj, Segments(ParentPath(field))) = Undefined

\* min <= x <= max for a number x and the bounds the run was given
WithinBounds(x) ==
    /\ x.t = "number"
    /\ \E m \in 0..MaxBound : greater \in Spellings(m) /\ NumLess(x, Num(m)) = Bool(FALSE)
    /\ \/ less = MAX_VALUE
       \/ \E m \in 0..MaxBound : less \in Spellings(m) /\ NumLess(Num(m), x) = Bool(FALSE)

\* the record's parent-path value has a length, the member `length` of its
\* own, and that length is not a number within [greater, less]
OutOfRange(obj) ==
    LET v == OwnWalk(obj, Segments(ParentPath(field)))
    IN  HasOwn(v, KeyLength) /\ ~WithinBounds(OwnValue(v, KeyLength))

Count(seq, x) == Cardinality({k \in 1..Len(seq) : seq[k] = x})
IsPrefix(a, b) == Len(a) <= Len(b) /\ SubSeq(b, 1, Len(a)) = a
Returned == pc \in {"returned", "done"}
\* the records and the total of a page received
PageRecords(chunk) == chunk.props[KeyGraph].items
PageTotal(chunk) == chunk.props[KeyTotal]
NonEmptyPages == {k \in 1..Len(received) : PageRecords(received[k]) # <<>>}
EmptyPages == {k \in 1..Len(received) : PageRecords(received[k]) = <<>>}

\* C1: the k-th page request (k = 0, 1, ...) carries from = 500*k; the first
\* empty page is the last page requested, whatever `total` the pages report,
\* and as long as no page was empty and the script has not crashed the loop
\* has the next request out.
C1_OffsetsAndTermination ==
    /\ \A k \in 1..Len(requests) : requests[k].from = 500 * (k - 1)
    /\ EmptyPages # {} =>
          /\ EmptyPages = {Len(received)}
          /\ Len(requests) = Len(received)
          /\ inflight = {}
          /\ Returned
    /\ (EmptyPages = {} /\ pc \notin {"init", "crashed"}) =>
          /\ pc = "await"
          /\ Len(requests) = Len(received) + 1
          /\ inflight = {500 * Len(received)}

\* a run whose second page is not empty although its offset 500 is past the
\* reported total 3, and that ends on the empty third page
C1_Witness ==
    /\ pc = "done"
    /\ Len(requests) = 3
    /\ PageTotal(received[1]) = Num(3)
    /\ PageTotal(received[2]) = Num(3)
    /\ PageRecords(received[2]) # <<>>
    /\ PageRecords(received[3]) = <<>>

\* the records considered so far that are in range and report the line l
InRangeWithLine(l) ==
    {k \in 1..Len(considered) : InRange(considered[k]) /\ ReportLine(considered[k]) = l}

\* C2: once getAllChunks has returned, every considered record whose
\* parent-path value (array or string) has a length within [greater, less]
\* has its line "<id> - <L>" in the result exactly once: the line occurs as
\* often as there are such records reporting it.
C2_EveryInRangeRecordReported ==
    Returned =>
        \A k \in 1..Len(considered) :
            InRange(considered[k]) =>
                Count(results, ReportLine(considered[k]))
                    = Cardinality(InRangeWithLine(ReportLine(considered[k])))

\* C3: at every point of a run, the result holds no line "<id> - ..." for a
\* considered record whose parent-path value is absent (undefined, or
\* unreachable because a key of the path is missing from the record) or
\* whose length lies outside [greater, less], whatever the bounds are.
C3_NoLineForAbsentOrOutOfRange ==
    \A k \in 1..Len(considered) :
        (Absent(considered[k]) \/ OutOfRange(considered[k])) =>
            \A n \in 1..Len(results) : ~IsPrefix(LinePrefix(considered[k]), results[n])

\* C4: the path measured by the filter is the field path itself when it has
\* no '.', and the field path without its final '.segment' otherwise.
C4_ParentPath ==
    pc = "path-done" => IsParentPath(lengthField, field)

\* the path a.b.c was handled and a.b is measured
C4_Witness ==
    /\ pc = "path-done"
    /\ field = FieldABC
    /\ lengthField = <<"a", ".", "b">>

\* C5: once a page request has failed, exactly one error was logged, the
\* script has crashed on reading '@graph', the failed request is the last
\* one sent and was sent once, and nothing was printed.
C5_FailedRequestCrashes ==
    /\ errors > 0 =>
          /\ errors = 1
          /\ pc = "crashed"
          /\ inflight = {}
          /\ Len(requests) = Len(received) + 1
          /\ \A j, k \in 1..Len(requests) : j # k => requests[j] # requests[k]
          /\ output = <<>>
          /\ \A k \in 1..Len(progress) : progress[k].call # "stop"

\* the second page request failed after a first page that produced results
C5_Witness ==
    /\ pc = "crashed"
    /\ errors = 1
    /\ Len(requests) = 2
    /\ Len(received) = 1
    /\ results # <<>>

\* C6: against a server that holds N records and pages them by `from`, a
\* finished run has sent exactly ceil(N/500) + 1 page requests and has handed
\* each of the N records to the filter exactly once.
C6_RequestAndRecordCounts ==
    Returned =>
        /\ Len(requests) = ((Len(db) + 499) \div 500) + 1
        /\ Len(considered) = Len(db)
        /\ \A k \in 1..Len(db) : considered[k] = db[k]

\* N = 503: three requests, 503 records considered
C6_Witness ==
    /\ pc = "done"
    /\ Len(db) = 503
    /\ Len(requests) = 3
    /\ Len(considered) = 503

RECURSIVE RecordsIn(_)
RecordsIn(pages) ==
    IF pages = <<>> THEN 0 ELSE Len(PageRecords(Head(pages))) + RecordsIn(Tail(pages))

\* C7: at most one page request is outstanding; a request is sent only when
\* every earlier one has been answered and every record of the answers has
\* been filtered; the offsets sent are strictly increasing.
C7_OneRequestAtATime ==
    /\ Cardinality(inflight) <= 1
    /\ Len(requests) <= Len(received) + 1
    /\ inflight # {} => Len(requests) = Len(received) + 1
    /\ inflight # {} => Len(considered) = RecordsIn(received)
    /\ \A j, k \in 1..Len(requests) : j < k => requests[j].from < requests[k].from

\* the third request is out after two non-empty pages were filtered
C7_Witness ==
    /\ pc = "await"
    /\ Len(requests) = 3
    /\ Cardinality(inflight) = 1
    /\ Len(received) = 2
    /\ Len(considered) = 4

\* the update calls made on the progress bar, in order
Updates == SelectSeq(progress, LAMBDA c : c.call = "update")

\* the lines of the considered records, in page-then-record order
ConsideredLines == [k \in 1..Len(considered) |-> ReportLine(considered[k])]

\* C8: every step leaves the old results as a prefix of the new ones, and the
\* final result lists its lines in page-then-record order: it is the list of
\* the considered records' lines, in their order, restricted to the lines kept.
C8_AppendOnlyInOrder ==
    /\ [][IsPrefix(results, results')]_vars
    /\ [](pc = "done" =>
            results = SelectSeq(ConsideredLines, LAMBDA l : l \in Range(results)))

\* a finished run that kept four lines from two pages of two different records
C8_Witness ==
    /\ pc = "done"
    /\ Len(received) = 3
    /\ Len(results) = 4
    /\ results[1] # results[2]
    /\ results[3] # results[4]

\* C9: the i-th PUT (i = 0 ..) carries the name "Test Cart <start + i>", at
\* most one PUT is outstanding, the bar is updated to 1, 2, .. i after the i
\* PUTs that have settled, and the loop ends after exactly `count` PUTs,
\* however many of them failed.
C9_CartsInSequence ==
    /\ \A k \in 1..Len(requests) :
          /\ requests[k].method = "PUT"
          /\ requests[k].name = "Test Cart " \o ToString(start + k - 1)
    /\ Cardinality(inflight) <= 1
    /\ Updates = [k \in 1..i |-> [call |-> "update", value |-> k]]
    /\ pc = "cart-await" => Len(requests) = i + 1 /\ i < count /\ Cardinality(inflight) = 1
    /\ pc \in {"cart-returned", "cart-done"} =>
          Len(requests) = count /\ i = count /\ inflight = {}
    /\ errors <= i

\* three carts were asked for and three PUTs sent although two of them failed
C9_Witness ==
    /\ pc = "cart-done"
    /\ count = 3
    /\ start = 2
    /\ errors = 2
    /\ Len(requests) = 3
    /\ requests[3].name = "Test Cart 4"

Starts == {k \in 1..Len(progress) : progress[k].call = "start"}

\* C10: the progress bar is never started while no non-empty page has been
\* seen; once one has, it has been started exactly once, as the first call
\* and with the first page's total; and the updates so far are 500, 1000, ..
\* one per non-empty page.
C10_ProgressStartedOnce ==
    /\ NonEmptyPages = {} => Starts = {}
    /\ NonEmptyPages # {} =>
          /\ Starts = {1}
          /\ progress[1] = [call |-> "start", total |-> PageTotal(received[1]), value |-> 0]
    /\ Updates = [k \in 1..Cardinality(NonEmptyPages) |->
                    [call |-> "update", value |-> 500 * k]]

\* C11: getObjectFieldValue(object, field) returns the value reached by
\* walking the '.'-separated keys of field in order from object, and undefined
\* as soon as a key is missing or is looked up in a value that has none.
C11_WalksThePath ==
    pc = "value-done" => fieldValue = Walk(db[1], Segments(field))

====
